---- MODULE Spec2Model ----
(***************************************************************************)
(* Lifecycle-event distribution core of the todo backend: the event bus    *)
(* (app/events/event_bus.py), the envelope (app/events/event_types.py),    *)
(* the three subscribers and the SSE registry (app/events/subscribers.py), *)
(* and the task-store call the recurrence subscriber makes                 *)
(* (app/services/task_service.py).                                         *)
(***************************************************************************)
EXTENDS Integers, Sequences, FiniteSets, TLC

VARIABLES
    backend,             \* which bus _create_event_bus built: "memory" or "redis"
    _subscribers,        \* event_bus._subscribers: topic -> list of handlers
    heap,                \* the envelope dicts alive in the process, by object identity
    ready,               \* asyncio's ready queue of tasks made by create_task (FIFO)
    invoked,             \* history: every handler invocation, in order
    pubLog,              \* history: every publish call that returned, in order
    stream,              \* Redis: topic -> the stream's entries, in append order
    consumers,           \* Redis: topic -> state of the _consume loop started for it
    _pending_reminders,  \* subscribers._pending_reminders: task_id -> due date string
    prev_reminders,      \* history: _pending_reminders before the last handler call
    _sse_queues,         \* subscribers._sse_queues: user_id -> list of queues
    queues,              \* every asyncio.Queue made by sse_connect -> its content
    opened,              \* history: the (user, queue) pairs sse_connect registered
    closed,              \* history: the registered pairs sse_disconnect was called for
    generators,          \* every _generate() event_stream made -> where the generator stands
    groups,              \* Redis: (topic, consumer group) -> the group's last-delivered id
    workers,             \* the processes consuming the log: pid -> what each has dispatched
    twin,                \* the same application run on the Redis backend, given the same calls
    store,               \* the task table, as the rows add_task inserted
    requests,            \* history: the add_task calls of the last handler call
    last                 \* history: the last operation and its envelope

busVars == <<backend, _subscribers, heap, ready, invoked, pubLog, stream, consumers>>
reminderVars == <<_pending_reminders, prev_reminders>>
sseVars == <<_sse_queues, queues, opened, closed>>
storeVars == <<store, requests>>
workerVars == <<generators, groups, workers, twin>>
vars == <<busVars, reminderVars, sseVars, storeVars, workerVars, last>>

(***************************************************************************)
(* Python values.  A dict is a function from its keys, so a missing key is *)
(* a key outside DOMAIN.  Strings that may be None (the ISO date strings)  *)
(* are tuples of their fields, datetimes are records, and None is the      *)
(* empty function: the only falsy value such a field takes.               *)
(***************************************************************************)
None == [k \in {} |-> TRUE]

EmptyDict == [k \in {} |-> None]

\* d.get(k, default)
Get(d, k, default) == IF k \in DOMAIN d THEN d[k] ELSE default

\* d[k] = v
SetItem(d, k, v) == [j \in DOMAIN d \cup {k} |-> IF j = k THEN v ELSE d[j]]

\* del d[k]
DelItem(d, k) == [j \in DOMAIN d \ {k} |-> d[j]]

\* bool(v) of a string-or-None value
Truthy(v) == v # None

(***************************************************************************)
(* Topics and event types (event_types.py).                                *)
(***************************************************************************)
TOPIC_TASK_LIFECYCLE == "task.lifecycle"

EVENT_TASK_CREATED == "task.created"
EVENT_TASK_UPDATED == "task.updated"
EVENT_TASK_COMPLETED == "task.completed"
EVENT_TASK_DELETED == "task.deleted"

EventTypes ==
    {EVENT_TASK_CREATED, EVENT_TASK_UPDATED, EVENT_TASK_COMPLETED, EVENT_TASK_DELETED}

\* datetime.utcnow().isoformat() is opaque to every handler: one stamp stands for it
Timestamps == {"ts"}

\* make_task_event: the five-field envelope; the bus adds "topic" at publish
make_task_event(event_type, user_id, task_id, payload) ==
    [event_type |-> event_type,
     user_id    |-> user_id,
     task_id    |-> task_id,
     timestamp  |-> CHOOSE t \in Timestamps : TRUE,
     payload    |-> IF DOMAIN payload = {} THEN EmptyDict ELSE payload]   \* payload or {}

(***************************************************************************)
(* Dates.  An ISO-8601 string "YYYY-MM-DDT00:00:00" is the triple          *)
(* <<YYYY, MM, DD>> of its fields; a datetime is the record of its         *)
(* proleptic Gregorian ordinal, as datetime computes with.                 *)
(***************************************************************************)
ValueError == [raised |-> "ValueError"]

IsLeap(y) == (y % 4 = 0 /\ y % 100 # 0) \/ y % 400 = 0

DaysInMonth(y, m) ==
    IF m = 2 THEN (IF IsLeap(y) THEN 29 ELSE 28)
    ELSE IF m \in {4, 6, 9, 11} THEN 30 ELSE 31

DaysInYear(y) == IF IsLeap(y) THEN 366 ELSE 365

\* number of days before January 1st of year y
DaysBeforeYear(y) ==
    LET p == y - 1 IN p * 365 + (p \div 4) - (p \div 100) + (p \div 400)

\* _days_before_month: number of days before the first day of month m
DaysBeforeMonth(y, m) ==
    <<0, 31, 59, 90, 120, 151, 181, 212, 243, 273, 304, 334>>[m]
        + (IF m > 2 /\ IsLeap(y) THEN 1 ELSE 0)

\* datetime.fromisoformat: ValueError when a field is out of range
fromisoformat(s) ==
    IF s[2] \in 1..12 /\ s[3] \in 1..DaysInMonth(s[1], s[2])
    THEN [ordinal |-> DaysBeforeYear(s[1]) + DaysBeforeMonth(s[1], s[2]) + s[3]]
    ELSE ValueError

\* the year the n-th day falls in
YearOfOrdinal(n) ==
    CHOOSE y \in ((n - 1) \div 366 + 1)..((n - 1) \div 365 + 1) :
        DaysBeforeYear(y) < n /\ n <= DaysBeforeYear(y) + DaysInYear(y)

\* the month the r-th day of year y falls in
MonthOfYearDay(y, r) ==
    CHOOSE m \in 1..12 : DaysBeforeMonth(y, m) < r /\ r <= DaysBeforeMonth(y, m) + DaysInMonth(y, m)

\* datetime.isoformat: the year, month and day the ordinal falls on
isoformat(dt) ==
    CHOOSE s \in UNION {{<<y, m, dt.ordinal - DaysBeforeYear(y) - DaysBeforeMonth(y, m)>> :
                            m \in {MonthOfYearDay(y, dt.ordinal - DaysBeforeYear(y))}} :
                        y \in {YearOfOrdinal(dt.ordinal)}} : TRUE

\* datetime + timedelta(days)
AddDays(dt, days) == [ordinal |-> dt.ordinal + days]

\* _RECURRENCE_DELTAS, in days
_RECURRENCE_DELTAS == [daily |-> 1, weekly |-> 7, monthly |-> 30]

\* _compute_next_due(current_due, recurrence)
_compute_next_due(current_due, recurrence) ==
    IF ~Truthy(current_due) \/ recurrence = "none" THEN None
    ELSE IF recurrence \notin DOMAIN _RECURRENCE_DELTAS THEN None
    ELSE IF fromisoformat(current_due) = ValueError THEN None
    ELSE isoformat(AddDays(fromisoformat(current_due), _RECURRENCE_DELTAS[recurrence]))

(***************************************************************************)
(* Payloads.  _task_payload snapshots a task row; a caller that finds no   *)
(* row passes {} (task_service.py:272, 324).                               *)
(***************************************************************************)
_task_payload(task) ==
    [title            |-> task.title,
     description      |-> task.description,
     completed        |-> task.completed,
     priority         |-> task.priority,
     tags             |-> IF task.tags # None THEN task.tags ELSE <<>>,   \* tags or []
     due_date         |-> IF Truthy(task.due_date) THEN isoformat(task.due_date) ELSE None,
     recurrence       |-> task.recurrence,
     reminder_enabled |-> task.reminder_enabled]

(***************************************************************************)
(* Event bus (event_bus.py).  An envelope is a dict object: heap maps the  *)
(* object to its content, and a task or a log entry names the object.      *)
(***************************************************************************)
Backends == {"memory", "redis"}

\* the id of the next object allocated
NewObject(h) == Cardinality(DOMAIN h) + 1

\* subscribe: self._subscribers.setdefault(topic, []).append(handler)
SubscribersAfter(subs, topic, handler) ==
    SetItem(subs, topic, Append(Get(subs, topic, <<>>), handler))

\* publish leaving the envelope as the producer built it
TopicNotSet(event, topic) == event

\* event["topic"] = topic
SetTopic(event, topic) == SetItem(event, "topic", topic)

\* json.dumps(event): the members in insertion order, the payload's likewise
EnvelopeKeys == <<"event_type", "user_id", "task_id", "timestamp", "payload", "topic">>

PayloadKeys ==
    <<"title", "description", "completed", "priority", "tags", "due_date",
      "recurrence", "reminder_enabled">>

Members(d, keys) ==
    LET present == SelectSeq(keys, LAMBDA k : k \in DOMAIN d)
    IN  [i \in 1..Len(present) |-> <<present[i], d[present[i]]>>]

json_dumps(event) ==
    LET members == Members(event, EnvelopeKeys)
    IN  [i \in 1..Len(members) |->
            IF members[i][1] = "payload"
            THEN <<"payload", Members(members[i][2], PayloadKeys)>>
            ELSE members[i]]

\* json.loads: the dict of the members
Object(members) ==
    [k \in {members[i][1] : i \in 1..Len(members)} |->
        LET i == CHOOSE j \in 1..Len(members) : members[j][1] = k IN members[i][2]]

json_loads(data) ==
    LET event == Object(data)
    IN  [k \in DOMAIN event |-> IF k = "payload" THEN Object(event[k]) ELSE event[k]]

\* r.xadd(topic, {"data": json.dumps(event)})
xadd(streams, topic, event) ==
    LET entries == Get(streams, topic, <<>>)
    IN  SetItem(streams, topic,
                Append(entries, [id |-> Len(entries) + 1, data |-> json_dumps(event)]))

\* the bus state a publish acts on
Bus == [backend |-> backend, subscribers |-> _subscribers, heap |-> heap,
        ready |-> ready, invoked |-> invoked, stream |-> stream, pubLog |-> pubLog]

\* the callables given to subscribe: the bus calls them and knows nothing else
\* of them; one returns, one raises an Exception, one awaits for ever
Handlers == {"h_returns", "h_raises", "h_hangs"}

HandlerOutcome(handler) ==
    CASE handler = "h_raises" -> "raised"
      [] handler = "h_hangs"  -> "pending"
      [] OTHER                -> "returned"

\* the record of one handler invocation: the handler, the envelope object, the
\* content it has when the handler reads it, whether the publish call that
\* carried it had returned by then, the number of publish calls that had, and
\* how the handler ended
Invocation(bus, handler, obj) ==
    [handler  |-> handler,
     event    |-> obj,
     seen     |-> bus.heap[obj],
     returned |-> \E i \in 1..Len(bus.pubLog) : bus.pubLog[i].event = obj,
     after    |-> Len(bus.pubLog),
     outcome  |-> HandlerOutcome(handler)]

\* the handler's outcome reaching the caller as it is
Uncaught(outcome) == outcome

\* try: ... except Exception: logger.exception(...): an Exception ends there
Caught(outcome) == IF outcome = "raised" THEN "returned" ELSE outcome

\* await _safe_dispatch(handler, event): the handler is invoked with the
\* envelope object; result is what the awaiting caller gets
_safe_dispatch(bus, handler, obj) ==
    [bus    |-> [bus EXCEPT !.invoked = Append(@, Invocation(bus, handler, obj))],
     result |-> Caught(HandlerOutcome(handler))]

\* the loop of InMemoryEventBus.publish awaiting each dispatch where it stands
\* instead of scheduling it
HandlersAwaited(bus, handlers, obj) ==
    [bus EXCEPT !.invoked = @ \o [i \in 1..Len(handlers) |-> Invocation(bus, handlers[i], obj)]]

\* an event loop that runs the task created last first
HandlersStacked(bus, handlers, obj) ==
    [bus EXCEPT !.ready = [i \in 1..Len(handlers) |->
                              [handler |-> handlers[Len(handlers) + 1 - i], event |-> obj]] \o @]

\* an event loop that runs the tasks of the latest publish before older ones
HandlersScheduledAhead(bus, handlers, obj) ==
    [bus EXCEPT !.ready = [i \in 1..Len(handlers) |-> [handler |-> handlers[i], event |-> obj]] \o @]

\* for handler in ...: asyncio.create_task(self._safe_dispatch(handler, event)):
\* one task per registration joins the loop's ready queue; none runs yet
HandlersScheduled(bus, handlers, obj) ==
    [bus EXCEPT !.ready = @ \o [i \in 1..Len(handlers) |-> [handler |-> handlers[i], event |-> obj]]]

\* the handlers of some registered topic, whatever the topic published to
HandlersOfAnyTopic(subs, topic) ==
    IF DOMAIN subs = {} THEN <<>> ELSE subs[CHOOSE t \in DOMAIN subs : TRUE]

\* self._subscribers.get(topic, [])
HandlersFor(subs, topic) == Get(subs, topic, <<>>)

\* publish(topic, event) for the envelope object obj, on either backend;
\* pubLog records, at the return, the topic argument, the object returned and
\* the handlers the registry then held for the topic
BusAfterPublish(bus, topic, obj) ==
    LET event == SetTopic(bus.heap[obj], topic)
        named == [bus EXCEPT !.heap = SetItem(@, obj, event)]
        sent == IF bus.backend = "memory"
                THEN HandlersScheduled(named, HandlersFor(bus.subscribers, topic), obj)
                ELSE [named EXCEPT !.stream = xadd(@, topic, event)]
    IN  [sent EXCEPT !.pubLog = Append(@, [topic |-> topic, event |-> obj,
                                           registered |-> Get(bus.subscribers, topic, <<>>)])]

\* a producer's fresh envelope, then publish(topic, it)
BusAfterPublishNew(bus, topic, event) ==
    LET obj == NewObject(bus.heap)
    IN  BusAfterPublish([bus EXCEPT !.heap = SetItem(@, obj, event)], topic, obj)

\* startup_event without its subscribe call for the reminder subscriber
StartupWithoutReminder ==
    SubscribersAfter(
        SubscribersAfter(EmptyDict, TOPIC_TASK_LIFECYCLE, "recurrence_subscriber"),
        TOPIC_TASK_LIFECYCLE, "notification_subscriber")

\* startup_event: the three subscribers, in this order
StartupSubscribers ==
    SubscribersAfter(
        SubscribersAfter(
            SubscribersAfter(EmptyDict, TOPIC_TASK_LIFECYCLE, "reminder_subscriber"),
            TOPIC_TASK_LIFECYCLE, "recurrence_subscriber"),
        TOPIC_TASK_LIFECYCLE, "notification_subscriber")

\* event_bus.subscribe(topic, handler)
subscribe(topic, handler) ==
    /\ _subscribers' = SubscribersAfter(_subscribers, topic, handler)
    /\ UNCHANGED <<backend, heap, ready, invoked, pubLog, stream, consumers,
                   _pending_reminders, prev_reminders, _sse_queues, queues, opened, closed,
                   store, requests, last, workerVars>>

\* await event_bus.publish(topic, event) with the envelope a producer just built
publish(topic, event) ==
    \E bus \in {BusAfterPublishNew(Bus, topic, event)} :
        /\ heap' = bus.heap
        /\ ready' = bus.ready
        /\ invoked' = bus.invoked
        /\ stream' = bus.stream
        /\ pubLog' = bus.pubLog
        /\ UNCHANGED <<backend, _subscribers, consumers,
                       _pending_reminders, prev_reminders, _sse_queues, queues, opened, closed,
                       store, requests, last, workerVars>>

\* await event_bus.publish(topic, event) with an envelope the caller published
\* before: the same dict object goes through publish again
publish_object(topic, obj) ==
    \E bus \in {BusAfterPublish(Bus, topic, obj)} :
        /\ heap' = bus.heap
        /\ ready' = bus.ready
        /\ invoked' = bus.invoked
        /\ stream' = bus.stream
        /\ pubLog' = bus.pubLog
        /\ UNCHANGED <<backend, _subscribers, consumers,
                       _pending_reminders, prev_reminders, _sse_queues, queues, opened, closed,
                       store, requests, last, workerVars>>

\* the event loop runs the task at the head of its ready queue: the
\* _safe_dispatch(handler, event) coroutine create_task wrapped.  Whatever the
\* result, the task is over or suspended, and the loop goes on to the next.
run_task ==
    /\ ready # <<>>
    /\ \E done \in {_safe_dispatch(Bus, Head(ready).handler, Head(ready).event)} :
          invoked' = done.bus.invoked
    /\ ready' = Tail(ready)
    /\ UNCHANGED <<backend, _subscribers, heap, pubLog, stream, consumers,
                   _pending_reminders, prev_reminders, _sse_queues, queues, opened, closed,
                   store, requests, last, workerVars>>

\* xreadgroup(..., count=10, ...)
count == 10

\* the data of an entry that is not the JSON text of an object: json.loads
\* raises on it
Malformed == << <<"{", "">> >>

Decodable(data) == \A i \in 1..Len(data) : data[i][1] # "{"

\* a loop without the try: the exception ends the task
ConsumerStopped(c) ==
    [c EXCEPT !.state = "done", !.messages = <<>>, !.event = 0, !.handler = 1,
              !.failed = @ + 1]

\* the except Exception of line 121, reached from anywhere in the try: the
\* error is logged, the task sleeps a second, and the loop reads again; what
\* was left of the batch is gone with the local variables
ConsumerAfterError(c) ==
    [c EXCEPT !.state = "reading", !.messages = <<>>, !.event = 0, !.handler = 1,
              !.failed = @ + 1]

\* a _consume task as create_task leaves it: the group is created at id "0",
\* nothing is delivered, and the loop is about to read
NewConsumer ==
    [state     |-> "reading",     \* where the loop stands
     delivered |-> 0,             \* the group's last-delivered id
     messages  |-> <<>>,          \* the messages of the batch not yet acknowledged
     event     |-> 0,             \* the object json.loads made of the first of them
     handler   |-> 1,             \* the position of the for loop over handlers
     decoded   |-> EmptyDict,     \* history: message id -> the object decoded from it
     read      |-> <<>>,          \* history: the ids xreadgroup returned, in order
     acked     |-> {},            \* the ids xack was called for
     failed    |-> 0,             \* history: how often the except of line 121 ran
     group     |-> TRUE]          \* whether the server has the group of this loop

\* start_consumers: one _consume task per topic of the registry
start_consumers ==
    /\ consumers' = [topic \in DOMAIN _subscribers |-> NewConsumer]
    /\ UNCHANGED <<backend, _subscribers, heap, ready, invoked, pubLog, stream,
                   _pending_reminders, prev_reminders, _sse_queues, queues, opened, closed,
                   store, requests, last, workerVars>>

\* start_consumers while the server cannot be reached: in each _consume task
\* xgroup_create raises, the except of lines 107-108 passes, and the task goes
\* on into its loop; the server has no group, and no later line creates one
start_consumers_unreachable ==
    /\ consumers' = [topic \in DOMAIN _subscribers |-> [NewConsumer EXCEPT !.group = FALSE]]
    /\ UNCHANGED <<backend, _subscribers, heap, ready, invoked, pubLog, stream,
                   _pending_reminders, prev_reminders, _sse_queues, queues, opened, closed,
                   store, requests, last, workerVars>>

\* a server handing out the newest entry first
BatchNewestFirst(entries, delivered, upto) ==
    [i \in 1..(upto - delivered) |-> entries[upto + 1 - i]]

\* a group whose last-delivered id is one too far
BatchSkippingFirst(entries, delivered, upto) == SubSeq(entries, delivered + 2, upto)

\* the messages xreadgroup returns for one stream: the entries after the
\* group's last-delivered id, oldest first
Batch(entries, delivered, upto) == SubSeq(entries, delivered + 1, upto)

\* _consume: results = await r.xreadgroup(group, consumer, {topic: ">"}, count=10):
\* the entries after the last delivered one, at most count of them; the server
\* answers a read for a group it does not have with an error (NOGROUP), which
\* is _consume_read_fails
_consume_read(topic) ==
    LET c == consumers[topic]
        entries == Get(stream, topic, <<>>)
        upto == IF Len(entries) < c.delivered + count THEN Len(entries) ELSE c.delivered + count
    IN  /\ c.state = "reading"
        /\ c.group
        /\ c.delivered < Len(entries)
        /\ consumers' = [consumers EXCEPT ![topic] =
                            [c EXCEPT !.state = "dispatching",
                                      !.messages = Batch(entries, c.delivered, upto),
                                      !.delivered = upto,
                                      !.read = @ \o [i \in 1..(upto - c.delivered) |->
                                                        Batch(entries, c.delivered, upto)[i].id],
                                      !.event = 0,
                                      !.handler = 1]]
        /\ UNCHANGED <<backend, _subscribers, heap, ready, invoked, pubLog, stream,
                       _pending_reminders, prev_reminders, _sse_queues, queues, opened, closed,
                       store, requests, last, workerVars>>

\* the consumer after one await _safe_dispatch(handler, event) of the for loop
\* over handlers gave result: on to the next handler or to xack; an exception
\* reaching the loop leaves the for loops for the handler of line 121, which
\* logs, sleeps and reads again; a handler that never completes holds the loop
ConsumerAfterDispatch(c, obj, handlers, result) ==
    CASE result = "returned" ->
            IF c.handler < Len(handlers)
            THEN [c EXCEPT !.event = obj, !.handler = @ + 1]
            ELSE [c EXCEPT !.event = obj, !.state = "acking"]
      [] result = "raised" ->
            ConsumerAfterError(c)
      [] OTHER ->
            [c EXCEPT !.event = obj, !.state = "awaiting"]

\* _consume: event = json.loads(fields["data"]) for a message not yet decoded,
\* then one await InMemoryEventBus._safe_dispatch(handler, event)
_consume_dispatch(topic) ==
    LET c == consumers[topic]
        fresh == c.event = 0
        obj == IF fresh THEN NewObject(heap) ELSE c.event
        loaded == IF fresh THEN SetItem(heap, obj, json_loads(Head(c.messages).data)) ELSE heap
    IN  /\ c.state = "dispatching"
        /\ IF fresh THEN Decodable(Head(c.messages).data) ELSE TRUE
        /\ \E done \in {_safe_dispatch([Bus EXCEPT !.heap = loaded],
                                       _subscribers[topic][c.handler], obj)} :
              /\ heap' = done.bus.heap
              /\ invoked' = done.bus.invoked
              /\ consumers' = [consumers EXCEPT ![topic] =
                    ConsumerAfterDispatch(
                        [c EXCEPT !.decoded = SetItem(@, Head(c.messages).id, obj)],
                        obj, _subscribers[topic], done.result)]
        /\ UNCHANGED <<backend, _subscribers, ready, pubLog, stream,
                       _pending_reminders, prev_reminders, _sse_queues, queues, opened, closed,
                       store, requests, last, workerVars>>

\* _consume: await r.xack(topic, group, msg_id), then the next message of the
\* batch, or the next read
_consume_ack(topic) ==
    LET c == consumers[topic]
    IN  /\ c.state = "acking"
        /\ consumers' = [consumers EXCEPT ![topic] =
                            [c EXCEPT !.state = IF Len(c.messages) > 1 THEN "dispatching" ELSE "reading",
                                      !.acked = @ \cup {Head(c.messages).id},
                                      !.messages = Tail(@),
                                      !.event = 0,
                                      !.handler = 1]]
        /\ UNCHANGED <<backend, _subscribers, heap, ready, invoked, pubLog, stream,
                       _pending_reminders, prev_reminders, _sse_queues, queues, opened, closed,
                       store, requests, last, workerVars>>

\* _consume on a message whose data json.loads cannot decode: the exception
\* leaves both for loops before any handler is called and before xack
_consume_decode_fails(topic) ==
    LET c == consumers[topic]
    IN  /\ c.state = "dispatching"
        /\ c.event = 0
        /\ ~Decodable(Head(c.messages).data)
        /\ consumers' = [consumers EXCEPT ![topic] = ConsumerAfterError(c)]
        /\ UNCHANGED <<backend, _subscribers, heap, ready, invoked, pubLog, stream,
                       _pending_reminders, prev_reminders, _sse_queues, queues, opened, closed,
                       store, requests, last, workerVars>>

\* _consume when await r.xack(...) raises (the connection drops for a moment):
\* the handlers have run, the entry stays unacknowledged
_consume_ack_fails(topic) ==
    LET c == consumers[topic]
    IN  /\ c.state = "acking"
        /\ consumers' = [consumers EXCEPT ![topic] = ConsumerAfterError(c)]
        /\ UNCHANGED <<backend, _subscribers, heap, ready, invoked, pubLog, stream,
                       _pending_reminders, prev_reminders, _sse_queues, queues, opened, closed,
                       store, requests, last, workerVars>>

\* _consume when await r.xreadgroup(...) raises (the server cannot be reached,
\* or it has no such group)
_consume_read_fails(topic) ==
    LET c == consumers[topic]
    IN  /\ c.state = "reading"
        /\ consumers' = [consumers EXCEPT ![topic] = ConsumerAfterError(c)]
        /\ UNCHANGED <<backend, _subscribers, heap, ready, invoked, pubLog, stream,
                       _pending_reminders, prev_reminders, _sse_queues, queues, opened, closed,
                       store, requests, last, workerVars>>

\* another client of the Redis server appends an entry whose data is not JSON
xadd_malformed(topic) ==
    /\ stream' = LET entries == Get(stream, topic, <<>>)
                 IN  SetItem(stream, topic,
                             Append(entries, [id |-> Len(entries) + 1, data |-> Malformed]))
    /\ UNCHANGED <<backend, _subscribers, heap, ready, invoked, pubLog, consumers,
                   _pending_reminders, prev_reminders, _sse_queues, queues, opened, closed,
                   store, requests, last, workerVars>>

(***************************************************************************)
(* Several processes on one Redis server.  Each imports event_bus.py and   *)
(* so has a RedisEventBus of its own: a registry, a group name made from   *)
(* its pid, and one _consume task per subscribed topic.  The streams and   *)
(* the consumer groups live in the server.                                 *)
(***************************************************************************)
\* self._consumer_group = f"todo-api-{os.getpid()}"
_consumer_group(pid) == <<"todo-api-", pid>>

\* the RedisEventBus of a process as __init__ leaves it; dispatched is the
\* history of the handler calls of its _consume tasks
NewWorker(pid) ==
    [pid |-> pid, subscribers |-> EmptyDict, started |-> FALSE, dispatched |-> {}]

\* subscribe(topic, handler) in the process p
worker_subscribe(p, topic, handler) ==
    /\ workers' = [workers EXCEPT ![p].subscribers =
                       SetItem(@, topic, Append(Get(@, topic, <<>>), handler))]
    /\ UNCHANGED <<busVars, reminderVars, sseVars, storeVars, generators, groups, twin, last>>

\* publish(topic, event) in the process p: the entry goes to the server
worker_publish(p, topic, event) ==
    /\ stream' = xadd(stream, topic, SetTopic(event, topic))
    /\ UNCHANGED <<backend, _subscribers, heap, ready, invoked, pubLog, consumers,
                   reminderVars, sseVars, storeVars, workerVars, last>>

\* start_consumers() in the process p
worker_start_consumers(p) ==
    /\ ~workers[p].started
    /\ workers' = [workers EXCEPT ![p].started = TRUE]
    /\ UNCHANGED <<busVars, reminderVars, sseVars, storeVars, generators, groups, twin, last>>

\* one round of the _consume task of the process p for the topic, when the
\* server is reachable, the entries are JSON and the handlers come back:
\* xgroup_create(topic, group, id="0") if the group is not there yet,
\* xreadgroup(group, consumer, {topic: ">"}, count=10) which hands out the
\* entries after the group's last-delivered id and moves that id, then every
\* handler of the topic for every entry, and xack
worker_consume(p, topic) ==
    LET group == <<topic, _consumer_group(workers[p].pid)>>
        delivered == Get(groups, group, 0)
        entries == Get(stream, topic, <<>>)
        upto == IF Len(entries) - delivered > count THEN delivered + count ELSE Len(entries)
        handlers == workers[p].subscribers[topic]
    IN  /\ workers[p].started
        /\ topic \in DOMAIN workers[p].subscribers
        /\ delivered < Len(entries)
        /\ groups' = SetItem(groups, group, upto)
        /\ workers' = [workers EXCEPT ![p].dispatched = @ \cup
                           {[topic |-> topic, id |-> entries[i].id, handler |-> handlers[k]] :
                                i \in (delivered + 1)..upto, k \in 1..Len(handlers)}]
        /\ UNCHANGED <<busVars, reminderVars, sseVars, storeVars, generators, twin, last>>

\* the process p ends and the application is started again as the process q,
\* to which the host gives pid: module import builds a new RedisEventBus
\* (__init__ names the group after the new pid), startup_event subscribes the
\* same handlers and starts the consumers.  The server keeps its streams and
\* its groups; p stays in workers for the history of its handler calls
worker_restart(p, q, pid) ==
    /\ workers[p].started
    /\ q \notin DOMAIN workers
    /\ workers' = SetItem([workers EXCEPT ![p].started = FALSE, ![p].subscribers = EmptyDict],
                          q, [NewWorker(pid) EXCEPT !.subscribers = workers[p].subscribers,
                                                    !.started = TRUE])
    /\ UNCHANGED <<busVars, reminderVars, sseVars, storeVars, generators, groups, twin, last>>

(***************************************************************************)
(* Reminder service (subscribers.py:52-91).                                *)
(***************************************************************************)
\* the branch taken for task.created/task.updated without the cancellation
ReminderIndexNoCancel(index, event) ==
    LET payload == Get(event, "payload", EmptyDict)
        due_date == Get(payload, "due_date", None)
    IN  IF event.event_type \in {EVENT_TASK_CREATED, EVENT_TASK_UPDATED}
           /\ Get(payload, "reminder_enabled", FALSE) /\ Truthy(due_date)
        THEN SetItem(index, event.task_id, due_date)
        ELSE IF event.event_type \in {EVENT_TASK_DELETED, EVENT_TASK_COMPLETED}
                /\ event.task_id \in DOMAIN index
        THEN DelItem(index, event.task_id)
        ELSE index

\* task.deleted/task.completed clearing the whole index instead of one entry
ReminderIndexClearAll(index, event) ==
    LET payload == Get(event, "payload", EmptyDict)
        due_date == Get(payload, "due_date", None)
    IN  IF event.event_type \in {EVENT_TASK_CREATED, EVENT_TASK_UPDATED}
        THEN IF Get(payload, "reminder_enabled", FALSE) /\ Truthy(due_date)
             THEN SetItem(index, event.task_id, due_date)
             ELSE IF event.task_id \in DOMAIN index
             THEN DelItem(index, event.task_id)
             ELSE index
        ELSE IF event.event_type \in {EVENT_TASK_DELETED, EVENT_TASK_COMPLETED}
        THEN EmptyDict
        ELSE index

\* a handler that cancels the reminder it finds already scheduled
ReminderIndexToggling(index, event) ==
    LET payload == Get(event, "payload", EmptyDict)
        due_date == Get(payload, "due_date", None)
    IN  IF event.event_type \in {EVENT_TASK_CREATED, EVENT_TASK_UPDATED}
           /\ Get(payload, "reminder_enabled", FALSE) /\ Truthy(due_date)
           /\ event.task_id \notin DOMAIN index
        THEN SetItem(index, event.task_id, due_date)
        ELSE IF event.task_id \in DOMAIN index
        THEN DelItem(index, event.task_id)
        ELSE index

\* _pending_reminders after reminder_subscriber(event) ran on index
ReminderIndexAfter(index, event) ==
    LET event_type == event.event_type
        task_id == event.task_id
        payload == Get(event, "payload", EmptyDict)
        reminder_enabled == Get(payload, "reminder_enabled", FALSE)
        due_date == Get(payload, "due_date", None)
    IN  IF event_type \in {EVENT_TASK_CREATED, EVENT_TASK_UPDATED}
        THEN IF reminder_enabled /\ Truthy(due_date)
             THEN SetItem(index, task_id, due_date)
             ELSE IF task_id \in DOMAIN index
             THEN DelItem(index, task_id)
             ELSE index
        ELSE IF event_type \in {EVENT_TASK_DELETED, EVENT_TASK_COMPLETED}
        THEN IF task_id \in DOMAIN index THEN DelItem(index, task_id) ELSE index
        ELSE index

\* reminder_subscriber(event), called with an envelope a dispatcher delivers
reminder_subscriber(event) ==
    /\ _pending_reminders' = ReminderIndexAfter(_pending_reminders, event)
    /\ prev_reminders' = _pending_reminders
    /\ last' = [op |-> "reminder_subscriber", event |-> event]
    /\ UNCHANGED <<busVars, sseVars, storeVars, workerVars>>

(***************************************************************************)
(* Task store (task_service.py) and recurrence service                     *)
(* (subscribers.py:96-177).  Strings built by f-strings are the tuples of  *)
(* their pieces.                                                           *)
(***************************************************************************)
\* the id the table gives the next inserted row
NewId(table) ==
    IF DOMAIN table = {} THEN 1
    ELSE 1 + CHOOSE i \in DOMAIN table : \A j \in DOMAIN table : j <= i

\* TaskService.create_task: the row inserted for an add_task call
TaskRow(call) ==
    [user_id          |-> call.user_id,
     title            |-> call.title,
     description      |-> call.description,
     completed        |-> FALSE,
     priority         |-> call.priority,
     tags             |-> call.tags,
     due_date         |-> call.due_date,
     recurrence       |-> call.recurrence,
     reminder_enabled |-> call.reminder_enabled]

\* an add_task announcing the new task as a completed one
add_task_completed(table, call) ==
    LET id == NewId(table)
        row == TaskRow(call)
    IN  [table  |-> SetItem(table, id, row),
         result |-> [status  |-> "success",
                     task_id |-> id,
                     event   |-> make_task_event(EVENT_TASK_COMPLETED, call.user_id, id,
                                                 _task_payload(row))]]

\* MCPTaskService.add_task on a store that commits: the new table and the result
add_task(table, call) ==
    LET id == NewId(table)
        row == TaskRow(call)
    IN  [table  |-> SetItem(table, id, row),
         result |-> [status  |-> "success",
                     task_id |-> id,
                     event   |-> make_task_event(EVENT_TASK_CREATED, call.user_id, id,
                                                 _task_payload(row))]]

\* RedisEventBus.publish when await r.xadd(...) raises because the server
\* cannot be reached: nothing around the call catches it.  The in-memory bus
\* has no server to reach.
PublishRaises(bk, reachable) == bk = "redis" /\ ~reachable

\* POST /tasks/ (task_endpoints.py:129-158): TaskService.create_task inserts
\* the row and commits, the row is read back, and the task.created envelope is
\* published.  An exception of publish leaves the endpoint, and the framework
\* answers 500; otherwise the answer is 201.  The topic is set on the envelope
\* before xadd is tried.
create_task(call, reachable) ==
    LET id == NewId(store)
        row == TaskRow(call)
        event == make_task_event(EVENT_TASK_CREATED, call.user_id, id, _task_payload(row))
        raises == PublishRaises(backend, reachable)
    IN  \E bus \in {IF raises
                    THEN [Bus EXCEPT !.heap = SetItem(@, NewObject(@),
                                                      SetTopic(event, TOPIC_TASK_LIFECYCLE))]
                    ELSE BusAfterPublishNew(Bus, TOPIC_TASK_LIFECYCLE, event)} :
            /\ store' = SetItem(store, id, row)
            /\ heap' = bus.heap
            /\ ready' = bus.ready
            /\ invoked' = bus.invoked
            /\ stream' = bus.stream
            /\ pubLog' = bus.pubLog
            /\ last' = [op |-> "create_task", task_id |-> id,
                        committed |-> id \in DOMAIN store',
                        raised |-> raises,
                        status |-> IF raises THEN 500 ELSE 201]
            /\ UNCHANGED <<backend, _subscribers, consumers, requests,
                           reminderVars, sseVars, workerVars>>

\* the guard without the test of the recurrence
RecurrenceAppliesToAll(event) == event.event_type = EVENT_TASK_COMPLETED

\* TaskService.get_task_by_id: the row with this id owned by this user, if any
get_task_by_id(table, task_id, user_id) ==
    IF task_id \in DOMAIN table /\ table[task_id].user_id = user_id
    THEN <<table[task_id]>> ELSE <<>>

\* the result dict of an MCPTaskService method that found no task
NotFound(table) == [table |-> table, result |-> [status |-> "error", error |-> "Task not found"]]

\* TaskService.toggle_task_completion: task.completed = not task.completed
toggle_task_completion(table, task_id, user_id) ==
    [table EXCEPT ![task_id].completed = ~@]

\* MCPTaskService.complete_task: the task is looked up, toggled, read again,
\* and the envelope is task.completed with the payload of the row as it now is
complete_task(table, task_id, user_id) ==
    IF get_task_by_id(table, task_id, user_id) = <<>> THEN NotFound(table)
    ELSE LET after == toggle_task_completion(table, task_id, user_id)
         IN  [table  |-> after,
              result |-> [status  |-> "success",
                          task_id |-> task_id,
                          event   |-> make_task_event(EVENT_TASK_COMPLETED, user_id, task_id,
                                                      _task_payload(after[task_id]))]]

\* a delete_task that announces the deletion of a task it did not find
delete_task_announcing(table, task_id, user_id) ==
    [table  |-> IF get_task_by_id(table, task_id, user_id) = <<>> THEN table
                ELSE DelItem(table, task_id),
     result |-> [status  |-> "success",
                 task_id |-> task_id,
                 event   |-> make_task_event(EVENT_TASK_DELETED, user_id, task_id,
                     IF get_task_by_id(table, task_id, user_id) = <<>> THEN EmptyDict
                     ELSE _task_payload(table[task_id]))]]

\* MCPTaskService.delete_task, and DELETE /tasks/{task_id} which does the
\* same: the payload is taken before the row is deleted
delete_task(table, task_id, user_id) ==
    IF get_task_by_id(table, task_id, user_id) = <<>> THEN NotFound(table)
    ELSE [table  |-> DelItem(table, task_id),
          result |-> [status  |-> "success",
                      task_id |-> task_id,
                      event   |-> make_task_event(EVENT_TASK_DELETED, user_id, task_id,
                                                  _task_payload(table[task_id]))]]

\* TaskService.update_task: setattr(task, field, value) for the fields given
RowAfterUpdate(row, fields) ==
    [k \in DOMAIN row |-> IF k \in DOMAIN fields THEN fields[k] ELSE row[k]]

\* MCPTaskService.update_task, and PUT /tasks/{task_id} which does the same:
\* the fields given are set, and the envelope is task.updated with the payload
\* of the row as it now is
update_task(table, task_id, user_id, fields) ==
    IF get_task_by_id(table, task_id, user_id) = <<>> THEN NotFound(table)
    ELSE LET after == [table EXCEPT ![task_id] = RowAfterUpdate(@, fields)]
         IN  [table  |-> after,
              result |-> [status  |-> "success",
                          task_id |-> task_id,
                          event   |-> make_task_event(EVENT_TASK_UPDATED, user_id, task_id,
                                                      _task_payload(after[task_id]))]]

\* PATCH /tasks/{task_id}/status: completed is set to status == "complete",
\* and the envelope is task.completed if that is true, task.updated if not
update_task_status(table, task_id, user_id, status) ==
    IF get_task_by_id(table, task_id, user_id) = <<>> THEN NotFound(table)
    ELSE LET new_completed == status = "complete"
             after == [table EXCEPT ![task_id].completed = new_completed]
         IN  [table  |-> after,
              result |-> [status  |-> "success",
                          task_id |-> task_id,
                          event   |-> make_task_event(
                                          IF new_completed THEN EVENT_TASK_COMPLETED
                                          ELSE EVENT_TASK_UPDATED,
                                          user_id, task_id, _task_payload(after[task_id]))]]

\* the endpoint around one of the service calls above, done being what the
\* call gives on a store that commits.  When the commit raises (db_ok false)
\* the exception leaves the service before any envelope is built and the
\* request is answered 500; a result with status error is answered 404; else
\* result["event"] is published on task.lifecycle and the answer is 200
endpoint(name, task_id, user_id, done, db_ok) ==
    LET found == done.result.status = "success"
        committed == found /\ db_ok
    IN  \E bus \in {IF committed
                     THEN BusAfterPublishNew(Bus, TOPIC_TASK_LIFECYCLE, done.result.event)
                     ELSE Bus} :
            /\ store' = IF committed THEN done.table ELSE store
            /\ heap' = bus.heap
            /\ ready' = bus.ready
            /\ invoked' = bus.invoked
            /\ stream' = bus.stream
            /\ pubLog' = bus.pubLog
            /\ last' = [op |-> name, task_id |-> task_id, user_id |-> user_id,
                        committed |-> committed,
                        status |-> IF committed THEN 200 ELSE IF found THEN 500 ELSE 404]
            /\ UNCHANGED <<backend, _subscribers, consumers, requests,
                           reminderVars, sseVars, workerVars>>

\* the guard without the test of the event type
RecurrenceAppliesToAnyType(event) ==
    Get(Get(event, "payload", EmptyDict), "recurrence", "none") # "none"

\* lines 107-114: the handler goes on only for task.completed with a recurrence
RecurrenceApplies(event) ==
    /\ event.event_type = EVENT_TASK_COMPLETED
    /\ Get(Get(event, "payload", EmptyDict), "recurrence", "none") # "none"

\* next due date left at the current one
NextDueUnmoved(event) == Get(Get(event, "payload", EmptyDict), "due_date", None)

\* line 121: next_due
NextDue(event) ==
    LET payload == Get(event, "payload", EmptyDict)
    IN  _compute_next_due(Get(payload, "due_date", None), Get(payload, "recurrence", "none"))

\* lines 139-151: the arguments of the add_task call
AddTaskCall(event) ==
    LET payload == Get(event, "payload", EmptyDict)
        next_due == NextDue(event)
    IN  [user_id          |-> event.user_id,
         title            |-> <<Get(payload, "title", "Recurring task"), " (recurring)">>,
         description      |-> <<"Auto-created from recurring task #", event.task_id>>,
         priority         |-> Get(payload, "priority", "medium"),
         tags             |-> Get(payload, "tags", None),
         due_date         |-> IF Truthy(next_due) THEN fromisoformat(next_due) ELSE None,
         recurrence       |-> Get(payload, "recurrence", "none"),
         reminder_enabled |-> Get(payload, "reminder_enabled", FALSE)]

\* the handler giving up when no next due date could be computed
AddTaskCallsIfDue(event) ==
    IF RecurrenceApplies(event) /\ Truthy(NextDue(event)) THEN <<AddTaskCall(event)>> ELSE <<>>

\* the add_task calls one run of the handler makes
AddTaskCalls(event) ==
    IF RecurrenceApplies(event) THEN <<AddTaskCall(event)>> ELSE <<>>

\* a handler that publishes a task.created envelope for a task it asked for
\* and did not get
EventsOfRequested(calls, done) ==
    IF done # <<>> THEN <<done[1].result.event>>
    ELSE IF calls # <<>>
    THEN <<make_task_event(EVENT_TASK_CREATED, calls[1].user_id, None, EmptyDict)>>
    ELSE <<>>

\* lines 153-166: the envelopes the handler publishes after its add_task
\* calls: result["event"] of a call that returned with status success and a
\* truthy event; a call that raised has left the try for the except of line 174
EventsToPublish(calls, done) ==
    IF done # <<>> /\ done[1].result.status = "success" /\ DOMAIN done[1].result.event # {}
    THEN <<done[1].result.event>>
    ELSE <<>>

\* recurrence_subscriber(event); db_ok: whether the store commits or raises
recurrence_subscriber(event, db_ok) ==
    \E calls \in {AddTaskCalls(event)} :
    \E done \in {IF calls # <<>> /\ db_ok THEN <<add_task(store, calls[1])>> ELSE <<>>} :
    \E events \in {EventsToPublish(calls, done)} :
    \E bus \in {IF events # <<>>
                 THEN BusAfterPublishNew(Bus, TOPIC_TASK_LIFECYCLE, events[1])
                 ELSE Bus} :
        /\ requests' = calls
        /\ store' = IF done # <<>> THEN done[1].table ELSE store
        /\ heap' = bus.heap
        /\ ready' = bus.ready
        /\ invoked' = bus.invoked
        /\ stream' = bus.stream
        /\ pubLog' = bus.pubLog
        /\ last' = [op |-> "recurrence_subscriber", event |-> event,
                    created |-> done # <<>>,
                    outcome |-> "returned",    \* line 174 swallows what add_task raises
                    store |-> store, published |-> Len(pubLog)]
        /\ UNCHANGED <<backend, _subscribers, consumers, reminderVars, sseVars, workerVars>>

(***************************************************************************)
(* SSE connection manager and notification service                         *)
(* (subscribers.py:185-245).  A queue is an object: queues maps it to the  *)
(* items put on it and not yet taken.                                      *)
(***************************************************************************)
Elements(list) == {list[i] : i \in 1..Len(list)}

\* list.remove(x): the list without the first x
Removed(list, x) ==
    LET at == CHOOSE i \in 1..Len(list) : list[i] = x /\ \A j \in 1..(i - 1) : list[j] # x
    IN  [i \in 1..(Len(list) - 1) |-> IF i < at THEN list[i] ELSE list[i + 1]]

\* _sse_queues after sse_connect(user_id) made the queue q
RegistryAfterConnect(registry, user_id, q) ==
    SetItem(registry, user_id, Append(Get(registry, user_id, <<>>), q))

\* sse_disconnect forgetting the user with the first of its queues to go
RegistryDroppingUser(registry, user_id, q) ==
    IF q \in Elements(Get(registry, user_id, <<>>)) THEN DelItem(registry, user_id) ELSE registry

\* sse_disconnect removing a queue of the user whether or not it is the one given
RegistryPoppingLast(registry, user_id, q) ==
    LET listed == Get(registry, user_id, <<>>)
        left == IF q \in Elements(listed) THEN Removed(listed, q)
                ELSE IF listed = <<>> THEN listed
                ELSE SubSeq(listed, 1, Len(listed) - 1)
    IN  IF left = <<>> THEN DelItem(registry, user_id) ELSE SetItem(registry, user_id, left)

\* sse_disconnect without the pop of the emptied user
RegistryKeepingKey(registry, user_id, q) ==
    LET listed == Get(registry, user_id, <<>>)
    IN  IF q \in Elements(listed) THEN SetItem(registry, user_id, Removed(listed, q))
        ELSE registry

\* sse_disconnect popping the user without looking at its list
RegistryPoppingUser(registry, user_id, q) == DelItem(registry, user_id)

\* _sse_queues after sse_disconnect(user_id, q)
RegistryAfterDisconnect(registry, user_id, q) ==
    LET listed == Get(registry, user_id, <<>>)
        left == IF q \in Elements(listed) THEN Removed(listed, q) ELSE listed
    IN  IF left = <<>> THEN DelItem(registry, user_id) ELSE SetItem(registry, user_id, left)

\* lines 233-240: the record pushed to the user's queues
SseEvent(event) ==
    LET payload == Get(event, "payload", EmptyDict)
    IN  [event_type |-> Get(event, "event_type", None),
         task_id    |-> Get(event, "task_id", None),
         user_id    |-> Get(event, "user_id", None),
         title      |-> Get(payload, "title", ""),
         timestamp  |-> Get(event, "timestamp", ""),
         payload    |-> payload]

\* the loop of lines 241-245 left after its first queue
PutFirstOnly(content, list, item) ==
    IF list = <<>> THEN content
    ELSE SetItem(content, Head(list), Append(content[Head(list)], item))

\* asyncio.Queue(): maxsize is not given and defaults to 0, which asyncio
\* reads as no limit
maxsize == 0

\* Queue.full(): never with maxsize <= 0
Full(content, q) == maxsize > 0 /\ Len(content[q]) >= maxsize

\* lines 241-245: q.put_nowait(sse_event) for each q of the list, in order;
\* QueueFull from a full queue is caught and the loop goes on
RECURSIVE PutAll(_, _, _)
PutAll(content, list, item) ==
    IF list = <<>> THEN content
    ELSE PutAll(IF Full(content, Head(list)) THEN content
                ELSE SetItem(content, Head(list), Append(content[Head(list)], item)),
                Tail(list), item)

\* a lookup that falls back on some other user's channels
ChannelsOfAnyUser(registry, user_id) ==
    IF user_id \in DOMAIN registry THEN registry[user_id]
    ELSE IF DOMAIN registry = {} THEN <<>>
    ELSE registry[CHOOSE other \in DOMAIN registry : TRUE]

\* line 241: _sse_queues.get(user_id, []), the channels the loop pushes to
ChannelsOf(registry, user_id) == Get(registry, user_id, <<>>)

\* sse_connect(user_id)
sse_connect(user_id) ==
    \E q \in {NewObject(queues)} :
        /\ queues' = SetItem(queues, q, <<>>)
        /\ _sse_queues' = RegistryAfterConnect(_sse_queues, user_id, q)
        /\ opened' = opened \cup {<<user_id, q>>}
        /\ last' = [op |-> "sse_connect"]
        /\ UNCHANGED <<busVars, reminderVars, storeVars, closed, workerVars>>

\* sse_disconnect(user_id, q)
sse_disconnect(user_id, q) ==
    /\ _sse_queues' = RegistryAfterDisconnect(_sse_queues, user_id, q)
    /\ closed' = closed \cup ({<<user_id, q>>} \cap opened)
    /\ last' = [op |-> "sse_disconnect", again |-> <<user_id, q>> \in closed,
                known |-> <<user_id, q>> \in opened]
    /\ UNCHANGED <<busVars, reminderVars, storeVars, queues, opened, workerVars>>

\* notification_subscriber(event)
notification_subscriber(event) ==
    /\ queues' = PutAll(queues, ChannelsOf(_sse_queues, Get(event, "user_id", None)),
                        SseEvent(event))
    /\ last' = [op |-> "notification_subscriber", event |-> event]
    /\ UNCHANGED <<busVars, reminderVars, storeVars, _sse_queues, opened, closed, workerVars>>

\* event_stream up to its return (api/main.py:589-609): the token checked,
\* queue = sse_connect(effective_user_id), then the response is built around
\* _generate(), a generator of which no line has run yet
event_stream(user_id) ==
    \E q \in {NewObject(queues)} :
        /\ queues' = SetItem(queues, q, <<>>)
        /\ _sse_queues' = RegistryAfterConnect(_sse_queues, user_id, q)
        /\ opened' = opened \cup {<<user_id, q>>}
        /\ generators' = SetItem(generators, q, [user_id |-> user_id, state |-> "created"])
        /\ last' = [op |-> "event_stream"]
        /\ UNCHANGED <<busVars, reminderVars, storeVars, closed, groups, workers, twin>>

\* the response iterates the generator for the first time: the try is entered
_generate_start(q) ==
    /\ generators[q].state = "created"
    /\ generators' = [generators EXCEPT ![q].state = "running"]
    /\ last' = [op |-> "_generate_start"]
    /\ UNCHANGED <<busVars, reminderVars, sseVars, storeVars, groups, workers, twin>>

\* the generator leaves its try block: by the break on request.is_disconnected(),
\* by an exception raised in the loop, or by the cancellation thrown into it at
\* an await or a yield; in each case the finally calls sse_disconnect
_generate_exit(q, how) ==
    /\ generators[q].state = "running"
    /\ generators' = [generators EXCEPT ![q].state = "ended"]
    /\ _sse_queues' = RegistryAfterDisconnect(_sse_queues, generators[q].user_id, q)
    /\ closed' = closed \cup ({<<generators[q].user_id, q>>} \cap opened)
    /\ last' = [op |-> "_generate_exit", how |-> how]
    /\ UNCHANGED <<busVars, reminderVars, storeVars, queues, opened, groups, workers, twin>>

\* the response is dropped before it iterates the generator: a generator that
\* never started has not entered its try, and closing it runs none of its lines
_generate_abandoned(q) ==
    /\ generators[q].state = "created"
    /\ generators' = [generators EXCEPT ![q].state = "ended"]
    /\ last' = [op |-> "_generate_abandoned"]
    /\ UNCHANGED <<busVars, reminderVars, sseVars, storeVars, groups, workers, twin>>

\* a notification subscriber that clears the reminder index
IndexClearedByNotification(handler, index, event) ==
    IF handler = "reminder_subscriber" THEN ReminderIndexAfter(index, event)
    ELSE IF handler = "notification_subscriber" THEN EmptyDict
    ELSE index

\* _pending_reminders after the handler ran with the event: of the three
\* subscribers only reminder_subscriber names _pending_reminders
IndexAfterHandler(handler, index, event) ==
    IF handler = "reminder_subscriber" THEN ReminderIndexAfter(index, event) ELSE index

\* the event loop runs the task at the head of its ready queue when the
\* handlers are the three subscribers: _safe_dispatch awaits the subscriber
\* with the envelope object; db_ok: whether the store commits or raises
run_subscriber(db_ok) ==
    /\ ready # <<>>
    /\ \E task \in {Head(ready)} :
       \E event \in {heap[task.event]} :
       \E started \in {_safe_dispatch([Bus EXCEPT !.ready = Tail(@)],
                                      task.handler, task.event).bus} :
       \E calls \in {IF task.handler = "recurrence_subscriber"
                     THEN AddTaskCalls(event) ELSE <<>>} :
       \E done \in {IF calls # <<>> /\ db_ok THEN <<add_task(store, calls[1])>> ELSE <<>>} :
       \E events \in {EventsToPublish(calls, done)} :
       \E bus \in {IF events # <<>>
                    THEN BusAfterPublishNew(started, TOPIC_TASK_LIFECYCLE, events[1])
                    ELSE started} :
          /\ heap' = bus.heap
          /\ ready' = bus.ready
          /\ invoked' = bus.invoked
          /\ stream' = bus.stream
          /\ pubLog' = bus.pubLog
          /\ _pending_reminders' = IndexAfterHandler(task.handler, _pending_reminders, event)
          /\ prev_reminders' =
                IF task.handler = "reminder_subscriber" THEN _pending_reminders ELSE prev_reminders
          /\ requests' = IF task.handler = "recurrence_subscriber" THEN calls ELSE requests
          /\ store' = IF done # <<>> THEN done[1].table ELSE store
          /\ queues' =
                IF task.handler = "notification_subscriber"
                THEN PutAll(queues, ChannelsOf(_sse_queues, Get(event, "user_id", None)),
                            SseEvent(event))
                ELSE queues
          /\ UNCHANGED <<backend, _subscribers, consumers, _sse_queues, opened, closed, last, workerVars>>

(***************************************************************************)
(* The application started with EVENT_BUS_BACKEND=redis, kept beside the   *)
(* one above in the variable twin so that the two can be compared: its bus *)
(* (with the same fields as Bus), the _consume task of the one topic, and  *)
(* the state of subscribers.py and of the task table.                      *)
(***************************************************************************)
\* after startup_event: the three subscribers registered and the consumer
\* started, its group created at id "0"
NewTwin ==
    [bus       |-> [backend |-> "redis", subscribers |-> StartupSubscribers,
                    heap |-> EmptyDict, ready |-> <<>>, invoked |-> <<>>,
                    stream |-> EmptyDict, pubLog |-> <<>>],
     consumer  |-> [delivered |-> 0, messages |-> <<>>, event |-> 0, handler |-> 1],
     reminders |-> EmptyDict,
     store     |-> EmptyDict,
     registry  |-> EmptyDict,
     queues    |-> EmptyDict]

\* await event_bus.publish(TOPIC_TASK_LIFECYCLE, event) by a producer
TwinAfterPublish(t, event) ==
    [t EXCEPT !.bus = BusAfterPublishNew(@, TOPIC_TASK_LIFECYCLE, event)]

\* sse_connect(user_id)
TwinAfterConnect(t, user_id) ==
    LET q == NewObject(t.queues)
    IN  [t EXCEPT !.queues = SetItem(@, q, <<>>),
                  !.registry = RegistryAfterConnect(@, user_id, q)]

\* await _safe_dispatch(handler, event) for one of the three subscribers and
\* the envelope object obj: what the subscriber does to the state, the publish
\* of recurrence_subscriber going to the stream
TwinAfterSubscriber(t, handler, obj) ==
    LET event == t.bus.heap[obj]
        started == _safe_dispatch(t.bus, handler, obj).bus
        calls == IF handler = "recurrence_subscriber" THEN AddTaskCalls(event) ELSE <<>>
        done == IF calls # <<>> THEN <<add_task(t.store, calls[1])>> ELSE <<>>
    IN  [t EXCEPT
            !.bus = IF done # <<>> /\ done[1].result.status = "success"
                        /\ DOMAIN done[1].result.event # {}
                    THEN BusAfterPublishNew(started, TOPIC_TASK_LIFECYCLE, done[1].result.event)
                    ELSE started,
            !.reminders = IF handler = "reminder_subscriber"
                          THEN ReminderIndexAfter(@, event) ELSE @,
            !.store = IF done # <<>> THEN done[1].table ELSE @,
            !.queues = IF handler = "notification_subscriber"
                       THEN PutAll(@, Get(t.registry, Get(event, "user_id", None), <<>>),
                                   SseEvent(event))
                       ELSE @]

\* the messages _consume has in hand: those left of its batch, or, the batch
\* done, those the next xreadgroup returns
TwinMessages(t) ==
    LET c == t.consumer
        entries == Get(t.bus.stream, TOPIC_TASK_LIFECYCLE, <<>>)
        upto == IF Len(entries) < c.delivered + count THEN Len(entries) ELSE c.delivered + count
    IN  IF c.messages # <<>> THEN c.messages ELSE Batch(entries, c.delivered, upto)

\* _consume up to the end of its next await _safe_dispatch(handler, event):
\* xreadgroup if the batch is done, json.loads if the message is new, the
\* handler, and after the last handler of the message xack
TwinAfterConsume(t) ==
    LET c == t.consumer
        messages == TwinMessages(t)
        handlers == HandlersFor(t.bus.subscribers, TOPIC_TASK_LIFECYCLE)
        fresh == c.event = 0
        obj == IF fresh THEN NewObject(t.bus.heap) ELSE c.event
        loaded == IF fresh
                  THEN [t EXCEPT !.bus.heap = SetItem(@, obj, json_loads(Head(messages).data))]
                  ELSE t
        ran == TwinAfterSubscriber(loaded, handlers[c.handler], obj)
    IN  [ran EXCEPT !.consumer =
            IF c.handler < Len(handlers)
            THEN [delivered |-> c.delivered + (IF c.messages = <<>> THEN Len(messages) ELSE 0),
                  messages |-> messages, event |-> obj, handler |-> c.handler + 1]
            ELSE [delivered |-> c.delivered + (IF c.messages = <<>> THEN Len(messages) ELSE 0),
                  messages |-> Tail(messages), event |-> 0, handler |-> 1]]

twin_publish(event) ==
    /\ twin' = TwinAfterPublish(twin, event)
    /\ UNCHANGED <<busVars, reminderVars, sseVars, storeVars, generators, groups, workers, last>>

twin_connect(user_id) ==
    /\ twin' = TwinAfterConnect(twin, user_id)
    /\ UNCHANGED <<busVars, reminderVars, sseVars, storeVars, generators, groups, workers, last>>

twin_consume ==
    /\ TwinMessages(twin) # <<>>
    /\ twin' = TwinAfterConsume(twin)
    /\ UNCHANGED <<busVars, reminderVars, sseVars, storeVars, generators, groups, workers, last>>

(***************************************************************************)
(* Inputs.  Every producer builds its envelope with make_task_event from   *)
(* _task_payload(row), or from {} when the row is gone, so the envelopes   *)
(* the handlers are given are drawn from those.                            *)
(***************************************************************************)
MaxTaskId == 2

TaskIds == 1..MaxTaskId

Users == {"u1", "u2"}

\* due dates at a leap day, a month end and a year end
DueStrings == {<<2024, 2, 28>>, <<2024, 1, 31>>, <<2023, 12, 31>>}

Recurrences == {"none", "daily", "weekly", "monthly"}

\* a row of the task table
Row(user_id, title, due_date, recurrence, reminder_enabled) ==
    [user_id          |-> user_id,
     title            |-> title,
     description      |-> "Added via chatbot",
     completed        |-> FALSE,
     priority         |-> "medium",
     tags             |-> None,
     due_date         |-> due_date,
     recurrence       |-> recurrence,
     reminder_enabled |-> reminder_enabled]

\* the payloads _task_payload yields for rows over the given field values, and {}
Payloads(dues, recurrences, reminders) ==
    {_task_payload(Row("u1", "Buy groceries", IF d = None THEN None ELSE fromisoformat(d), r, e)) :
        <<d, r, e>> \in dues \X recurrences \X reminders}
    \cup {EmptyDict}

Envelopes(types, users, ids, payloads) ==
    {make_task_event(t, u, i, p) : <<t, u, i, p>> \in types \X users \X ids \X payloads}

NoOp == [op |-> "none"]

BusIdle ==
    /\ backend = "memory"
    /\ _subscribers = EmptyDict
    /\ heap = EmptyDict
    /\ ready = <<>>
    /\ invoked = <<>>
    /\ pubLog = <<>>
    /\ stream = EmptyDict
    /\ consumers = EmptyDict

RemindersIdle == _pending_reminders = EmptyDict /\ prev_reminders = EmptyDict

SseIdle == _sse_queues = EmptyDict /\ queues = EmptyDict /\ opened = {} /\ closed = {}

StoreIdle == store = EmptyDict /\ requests = <<>>

WorkersIdle ==
    generators = EmptyDict /\ groups = EmptyDict /\ workers = EmptyDict /\ twin = EmptyDict

(***************************************************************************)
(* The reminder subscriber alone, given any sequence of envelopes.         *)
(***************************************************************************)
ReminderEvents ==
    Envelopes(EventTypes, {"u1"}, TaskIds,
              Payloads({None} \cup {d \in DueStrings : d[1] = 2024}, {"none"}, BOOLEAN))

InitReminder == BusIdle /\ RemindersIdle /\ SseIdle /\ StoreIdle /\ WorkersIdle /\ last = NoOp

NextReminder == \E event \in ReminderEvents : reminder_subscriber(event)

SpecReminder == InitReminder /\ [][NextReminder]_vars

\* the last operation was reminder_subscriber on an event of one of the types
ReminderRan(types) ==
    last.op = "reminder_subscriber" /\ last.event.event_type \in types

\* C5: after reminder_subscriber processed a task.created or task.updated event
\* for task t, the index maps t to payload.due_date if payload.reminder_enabled
\* is true and payload.due_date is present, and has no entry for t otherwise
\* (so an update that disables the reminder removes the entry a creation made).
C5_ReminderUpsert ==
    ReminderRan({EVENT_TASK_CREATED, EVENT_TASK_UPDATED}) =>
        LET t == last.event.task_id
            payload == last.event.payload
        IN  IF "reminder_enabled" \in DOMAIN payload /\ payload.reminder_enabled
               /\ "due_date" \in DOMAIN payload /\ payload.due_date # None
            THEN t \in DOMAIN _pending_reminders /\ _pending_reminders[t] = payload.due_date
            ELSE t \notin DOMAIN _pending_reminders

\* C5 witness: an update with reminder_enabled = false has just removed the
\* entry that an earlier event with reminder_enabled = true had written.
C5_Witness ==
    /\ ReminderRan({EVENT_TASK_UPDATED})
    /\ "reminder_enabled" \in DOMAIN last.event.payload
    /\ ~last.event.payload.reminder_enabled
    /\ last.event.task_id \in DOMAIN prev_reminders
    /\ last.event.task_id \notin DOMAIN _pending_reminders

\* C6: after reminder_subscriber processed a task.completed or task.deleted
\* event for task t, the index has no entry for t, whatever the payload and
\* whether or not there was one, and the entries of other tasks are as before.
C6_ReminderClear ==
    ReminderRan({EVENT_TASK_COMPLETED, EVENT_TASK_DELETED}) =>
        LET t == last.event.task_id
        IN  /\ t \notin DOMAIN _pending_reminders
            /\ DOMAIN _pending_reminders = DOMAIN prev_reminders \ {t}
            /\ \A k \in DOMAIN _pending_reminders : _pending_reminders[k] = prev_reminders[k]

\* C6 witness: a completion whose payload still asks for a reminder has removed
\* the entry of its task and left the entry of another task in place.
C6_Witness ==
    /\ ReminderRan({EVENT_TASK_COMPLETED})
    /\ "reminder_enabled" \in DOMAIN last.event.payload
    /\ last.event.payload.reminder_enabled
    /\ last.event.payload.due_date # None
    /\ last.event.task_id \in DOMAIN prev_reminders
    /\ last.event.task_id \notin DOMAIN _pending_reminders
    /\ _pending_reminders # EmptyDict

\* C29: for every state of the reminder index and every envelope, running
\* reminder_subscriber a second time with the same envelope leaves the index
\* as the first run left it.
C29_ReminderIdempotent ==
    \A event \in ReminderEvents :
        LET once == ReminderIndexAfter(_pending_reminders, event)
        IN  ReminderIndexAfter(once, event) = once

\* C29 witness: the handler has just run with a task.created that schedules a
\* reminder, on an index that the same envelope had already been applied to,
\* beside the reminder of another task
C29_Witness ==
    /\ last.op = "reminder_subscriber"
    /\ last.event.event_type = EVENT_TASK_CREATED
    /\ last.event.task_id \in DOMAIN _pending_reminders
    /\ prev_reminders = _pending_reminders
    /\ ReminderIndexAfter(prev_reminders, last.event) = _pending_reminders
    /\ Cardinality(DOMAIN _pending_reminders) = 2

(***************************************************************************)
(* The recurrence subscriber alone, on the bus as startup_event leaves it, *)
(* given any sequence of envelopes, the store committing or failing.       *)
(***************************************************************************)
MaxRows == 1

\* task.completed with every payload; the other types with a recurring payload
RecurrenceEvents ==
    Envelopes({EVENT_TASK_COMPLETED}, {"u1"}, TaskIds,
              Payloads({None} \cup {d \in DueStrings : d[2] # 1}, Recurrences, {TRUE}))
    \cup Envelopes(EventTypes, {"u1"}, TaskIds, Payloads({<<2024, 2, 28>>}, {"daily"}, {TRUE}))
    \cup Envelopes(EventTypes \ {EVENT_TASK_COMPLETED}, {"u1"}, {1},
                   Payloads({None, <<2023, 12, 31>>}, {"none", "weekly", "monthly"}, {TRUE}))

InitRecurrence ==
    /\ backend \in Backends
    /\ _subscribers = StartupSubscribers
    /\ heap = EmptyDict /\ ready = <<>> /\ invoked = <<>> /\ pubLog = <<>>
    /\ stream = EmptyDict /\ consumers = EmptyDict
    /\ RemindersIdle /\ SseIdle /\ StoreIdle /\ WorkersIdle /\ last = NoOp

NextRecurrence ==
    \E event \in RecurrenceEvents :
    \E n \in {Len(AddTaskCalls(event))} :
    \E db_ok \in IF n = 0 THEN {TRUE} ELSE BOOLEAN :
        /\ Cardinality(DOMAIN store) + n <= MaxRows
        /\ recurrence_subscriber(event, db_ok)

SpecRecurrence == InitRecurrence /\ [][NextRecurrence]_vars

\* the last operation was recurrence_subscriber on a task.completed event whose
\* payload has one of the recurrences (absent counts as "none") and a due date
\* that is present or not
RecurrenceRan(recurrences, due_present) ==
    /\ last.op = "recurrence_subscriber"
    /\ last.event.event_type = EVENT_TASK_COMPLETED
    /\ (IF "recurrence" \in DOMAIN last.event.payload
        THEN last.event.payload.recurrence ELSE "none") \in recurrences
    /\ ("due_date" \in DOMAIN last.event.payload /\ last.event.payload.due_date # None)
           = due_present

\* the rows the last operation added to the store
RowsAdded == DOMAIN store \ DOMAIN last.store

\* the last operation left the store as it was and published nothing
NothingCreatedOrPublished ==
    /\ requests = <<>>
    /\ store = last.store
    /\ Len(pubLog) = last.published

\* the last operation made exactly one add_task call, with this due date, and,
\* the store having created the task, published exactly one task.created event
\* for it on task.lifecycle, carrying this due date string
OneCreatedAndPublished(due_datetime, due_string) ==
    /\ Len(requests) = 1
    /\ requests[1].due_date = due_datetime
    /\ requests[1].recurrence = last.event.payload.recurrence
    /\ last.outcome = "returned"
    /\ IF last.created
       THEN /\ Cardinality(RowsAdded) = 1
            /\ \A id \in DOMAIN last.store : store[id] = last.store[id]
            /\ Len(pubLog) = last.published + 1
            /\ LET published == pubLog[Len(pubLog)]
                   event == heap[published.event]
               IN  /\ published.topic = TOPIC_TASK_LIFECYCLE
                   /\ event.event_type = EVENT_TASK_CREATED
                   /\ event.task_id \in RowsAdded
                   /\ store[event.task_id].due_date = due_datetime
                   /\ event.payload.due_date = due_string
                   /\ event.topic = TOPIC_TASK_LIFECYCLE
       ELSE store = last.store /\ Len(pubLog) = last.published

\* the day count the claim gives each recurrence
OffsetDays(recurrence) ==
    CASE recurrence = "daily" -> 1 [] recurrence = "weekly" -> 7 [] recurrence = "monthly" -> 30

\* the date, as a triple, n days after the triple d, counted day by day
RECURSIVE DaysLater(_, _)
DaysLater(d, n) ==
    IF n = 0 THEN d
    ELSE IF d[3] < DaysInMonth(d[1], d[2]) THEN DaysLater(<<d[1], d[2], d[3] + 1>>, n - 1)
    ELSE IF d[2] < 12 THEN DaysLater(<<d[1], d[2] + 1, 1>>, n - 1)
    ELSE DaysLater(<<d[1] + 1, 1, 1>>, n - 1)

\* C7: when recurrence_subscriber processes a task.completed event with
\* recurrence daily, weekly or monthly and a due date D, it requests the
\* creation of exactly one task, due D+1 day, D+7 days or D+30 days, and then
\* (the store having created it) publishes exactly one task.created event for
\* that task on task.lifecycle.
C7_RecurrenceCreatesNext ==
    RecurrenceRan({"daily", "weekly", "monthly"}, TRUE) =>
        LET D == last.event.payload.due_date
            next == DaysLater(D, OffsetDays(last.event.payload.recurrence))
        IN  OneCreatedAndPublished(
                [ordinal |-> fromisoformat(D).ordinal + OffsetDays(last.event.payload.recurrence)],
                next)

\* C7 witness: a daily task due 2023-12-31 was completed, and the created event
\* of its successor, due 2024-01-01, has been published.
C7_Witness ==
    /\ RecurrenceRan({"daily"}, TRUE)
    /\ last.event.payload.due_date = <<2023, 12, 31>>
    /\ last.created
    /\ Len(pubLog) = last.published + 1
    /\ heap[pubLog[Len(pubLog)].event].payload.due_date = <<2024, 1, 1>>

\* C8: when recurrence_subscriber processes a task.completed event whose
\* payload has recurrence none, or no recurrence field, no task creation is
\* requested and no event is published.
C8_RecurrenceNoneNoOp ==
    RecurrenceRan({"none"}, TRUE) \/ RecurrenceRan({"none"}, FALSE)
        => NothingCreatedOrPublished

\* C8 witness: a task.completed event without a recurrence field was processed
\* after an earlier completion had created a task.
C8_Witness ==
    /\ RecurrenceRan({"none"}, FALSE)
    /\ "recurrence" \notin DOMAIN last.event.payload
    /\ store # EmptyDict
    /\ NothingCreatedOrPublished

\* C9 as claimed: when recurrence_subscriber processes a task.completed event
\* with recurrence daily, weekly or monthly and no due date, no task is created
\* and no event is published.
C9_AsClaimed ==
    RecurrenceRan({"daily", "weekly", "monthly"}, FALSE) => NothingCreatedOrPublished

\* C9 as the code has it: when recurrence_subscriber processes a task.completed
\* event with recurrence daily, weekly or monthly and no due date, it requests
\* the creation of exactly one task without a due date and (the store having
\* created it) publishes exactly one task.created event for it; the handler
\* returns normally.
C9_NoDueStillCreates ==
    RecurrenceRan({"daily", "weekly", "monthly"}, FALSE) =>
        OneCreatedAndPublished(None, None)

\* C9 witness: a weekly task without a due date was completed and a successor
\* without a due date is in the store.
C9_Witness ==
    /\ RecurrenceRan({"weekly"}, FALSE)
    /\ last.created
    /\ \E id \in RowsAdded : store[id].due_date = None /\ store[id].recurrence = "weekly"

\* C39: when the add_task call recurrence_subscriber makes raises, the
\* handler publishes no event, creates no row, returns to its dispatcher
\* without raising, and leaves the reminder index, the SSE registry and every
\* channel as they were; had the call returned a result whose status is not
\* success, the handler would have had nothing to publish either.
C39_CreateFailureContained ==
    [][(last'.op = "recurrence_subscriber" /\ requests' # <<>> /\ ~last'.created)
          => /\ pubLog' = pubLog /\ ready' = ready /\ stream' = stream
             /\ store' = store
             /\ last'.outcome = "returned"
             /\ _pending_reminders' = _pending_reminders
             /\ _sse_queues' = _sse_queues /\ queues' = queues
             /\ EventsToPublish(requests', <<[table  |-> store,
                                              result |-> [status |-> "error",
                                                          error  |-> "Failed"]]>>) = <<>>]_vars

\* C39 witness: the completion of a daily task was processed, the add_task
\* call was made and raised, and the store holds no row for it
C39_Witness ==
    /\ RecurrenceRan({"daily"}, TRUE)
    /\ Len(requests) = 1
    /\ ~last.created
    /\ store = EmptyDict
    /\ pubLog = <<>>

\* C33: recurrence_subscriber reacts only to task.completed: given a
\* task.created, task.updated or task.deleted envelope, whatever its recurrence
\* and due date, it requests no task creation, publishes nothing and changes
\* no state of the bus, the store, the reminder index or the SSE registry.
C33_OnlyCompleted ==
    [][(last'.op = "recurrence_subscriber" /\ last'.event.event_type # EVENT_TASK_COMPLETED)
          => /\ requests' = <<>>
             /\ store' = store
             /\ pubLog' = pubLog /\ heap' = heap /\ ready' = ready /\ stream' = stream
             /\ _pending_reminders' = _pending_reminders
             /\ _sse_queues' = _sse_queues /\ queues' = queues]_vars

\* C33 witness: a task.updated envelope of a weekly task was processed after a
\* completion had created a task, and nothing was requested
C33_Witness ==
    /\ last.op = "recurrence_subscriber"
    /\ last.event.event_type = EVENT_TASK_UPDATED
    /\ last.event.payload # EmptyDict
    /\ last.event.payload.recurrence = "weekly"
    /\ store # EmptyDict
    /\ requests = <<>>

(***************************************************************************)
(* The SSE registry and the notification subscriber: clients connect and   *)
(* disconnect, and envelopes of any user are notified, in any order.       *)
(***************************************************************************)
MaxQueues == 2

MaxQueued == 3

NotificationEvents ==
    Envelopes({EVENT_TASK_CREATED, EVENT_TASK_COMPLETED}, Users, {1},
              Payloads({None}, {"none"}, {FALSE}) \ {EmptyDict})

\* the number of items put on the queues so far
RECURSIVE Queued(_)
Queued(content) ==
    IF DOMAIN content = {} THEN 0
    ELSE LET q == CHOOSE k \in DOMAIN content : TRUE
         IN  Len(content[q]) + Queued(DelItem(content, q))

InitSse == BusIdle /\ RemindersIdle /\ SseIdle /\ StoreIdle /\ WorkersIdle /\ last = NoOp

Connect == \E user_id \in Users : Cardinality(DOMAIN queues) < MaxQueues /\ sse_connect(user_id)

Disconnect == \E user_id \in Users, q \in DOMAIN queues : sse_disconnect(user_id, q)

Notify ==
    \E event \in NotificationEvents :
        /\ Queued(queues) + Len(Get(_sse_queues, event.user_id, <<>>)) <= MaxQueued
        /\ notification_subscriber(event)

NextSse == Connect \/ Disconnect \/ Notify

SpecSse == InitSse /\ [][NextSse]_vars

\* the channels open for a user: connected for it and not disconnected since
OpenChannels(user_id) == {q \in DOMAIN queues : <<user_id, q>> \in opened \ closed}

\* C10: when notification_subscriber processes one envelope for user u who has
\* n >= 1 open channels, each of them receives exactly one notification record
\* for that envelope; this stays so for the channels that remain after another
\* channel of u was disconnected.
C10_SseFanOut ==
    [][last'.op = "notification_subscriber" =>
        \A q \in OpenChannels(last'.event.user_id) :
            /\ Len(queues'[q]) = Len(queues[q]) + 1
            /\ SubSeq(queues'[q], 1, Len(queues[q])) = queues[q]
            /\ LET item == queues'[q][Len(queues'[q])]
               IN  /\ item.event_type = last'.event.event_type
                   /\ item.task_id = last'.event.task_id
                   /\ item.user_id = last'.event.user_id
                   /\ item.timestamp = last'.event.timestamp
                   /\ item.payload = last'.event.payload
                   /\ item.title = last'.event.payload.title]_vars

\* C10 witness: user u1 had two channels which each got a first notification;
\* one was disconnected, and a later envelope has reached the one that remains,
\* once, and not the disconnected one.
C10_Witness ==
    /\ last.op = "notification_subscriber"
    /\ last.event.user_id = "u1"
    /\ Cardinality(OpenChannels("u1")) = 1
    /\ \A q \in OpenChannels("u1") :
          Len(queues[q]) = 2 /\ queues[q][2].event_type = last.event.event_type
    /\ \E q \in DOMAIN queues :
          <<"u1", q>> \in opened \cap closed /\ Len(queues[q]) = 1

\* an object no sse_connect call returned
UnknownChannel == 0

\* C11: for any registry state, user u and channel c, known or not, a second
\* sse_disconnect(u, c) leaves the registry exactly as the first call left it
\* (the call has no raising path: the remove is guarded, the pop has a default).
C11_DisconnectIdempotent ==
    \A user_id \in Users, q \in DOMAIN queues \cup {UnknownChannel} :
        LET once == RegistryAfterDisconnect(_sse_queues, user_id, q)
        IN  RegistryAfterDisconnect(once, user_id, q) = once

\* C11 witness: sse_disconnect was just called a second time for a channel of
\* a user who has another channel still registered.
C11_Witness ==
    /\ last.op = "sse_disconnect"
    /\ last.again
    /\ \E user_id \in DOMAIN _sse_queues :
          \E q \in DOMAIN queues : <<user_id, q>> \in closed

\* C28: sse_disconnect(u, c) for a channel c that sse_connect never registered
\* under u (u unknown, u with other channels, or c a channel of another user)
\* returns and leaves the registry and every channel as they were.
C28_UnknownChannelNoOp ==
    [][(last'.op = "sse_disconnect" /\ ~last'.known)
          => (_sse_queues' = _sse_queues /\ queues' = queues /\ closed' = closed)]_vars

\* C28 witness: both users have a channel, and the last call was an
\* sse_disconnect for a pair never registered
C28_Witness ==
    /\ last.op = "sse_disconnect"
    /\ ~last.known
    /\ DOMAIN _sse_queues = Users

\* C12: after any sequence of sse_connect and sse_disconnect calls, every
\* user_id key of the registry maps to a non-empty list, and the channels
\* listed under a user are exactly those connected for it and not yet
\* disconnected, each listed once.
C12_RegistryInvariant ==
    /\ \A user_id \in DOMAIN _sse_queues : _sse_queues[user_id] # <<>>
    /\ \A user_id \in Users, q \in DOMAIN queues :
          Cardinality({i \in 1..Len(Get(_sse_queues, user_id, <<>>)) :
                          _sse_queues[user_id][i] = q})
              = IF q \in OpenChannels(user_id) THEN 1 ELSE 0

\* C12 witness: a user's only channel was disconnected and its key is gone,
\* while the other user keeps a channel.
C12_Witness ==
    /\ last.op = "sse_disconnect"
    /\ \E user_id \in Users :
          /\ user_id \notin DOMAIN _sse_queues
          /\ \E q \in DOMAIN queues : <<user_id, q>> \in closed
    /\ _sse_queues # EmptyDict

\* C31: a notification built from an envelope with user_id u is placed only on
\* channels registered under u: whatever the interleaving of connects,
\* disconnects and notifications, no channel registered under another user
\* ever holds it.
C31_UserPartitioning ==
    \A user_id \in Users, q \in DOMAIN queues :
        <<user_id, q>> \in opened =>
            \A i \in 1..Len(queues[q]) : queues[q][i].user_id = user_id

\* C31 witness: both users have a channel registered, an envelope of u1 was
\* just notified and is on u1's channel, and u2's channel holds nothing
C31_Witness ==
    /\ last.op = "notification_subscriber"
    /\ last.event.user_id = "u1"
    /\ \E q1, q2 \in DOMAIN queues :
          /\ <<"u1", q1>> \in opened \ closed
          /\ <<"u2", q2>> \in opened \ closed
          /\ queues[q1] # <<>>
          /\ queues[q2] = <<>>

\* C15, as claimed: every channel sse_connect returned has a finite capacity,
\* and the number of notifications buffered in it never exceeds that capacity
\* (a push to a full channel being dropped for that channel only).
C15_AsClaimed ==
    \A q \in DOMAIN queues : maxsize > 0 /\ Len(queues[q]) <= maxsize

(***************************************************************************)
(* The bus alone: handlers are subscribed, envelopes are published, and    *)
(* the event loop runs the tasks of either backend, in any interleaving.   *)
(***************************************************************************)
MaxSubscribed == 2

MaxPublished == 2

Topics == {TOPIC_TASK_LIFECYCLE, "task.audit"}

BusEvents ==
    Envelopes({EVENT_TASK_CREATED}, {"u1"}, {1}, Payloads({None}, {"none"}, {FALSE}) \ {EmptyDict})

\* the number of registrations in a registry
RECURSIVE Subscribed(_)
Subscribed(subs) ==
    IF DOMAIN subs = {} THEN 0
    ELSE LET t == CHOOSE k \in DOMAIN subs : TRUE
         IN  Len(subs[t]) + Subscribed(DelItem(subs, t))

InitBus ==
    /\ backend \in Backends
    /\ _subscribers = EmptyDict
    /\ heap = EmptyDict /\ ready = <<>> /\ invoked = <<>> /\ pubLog = <<>>
    /\ stream = EmptyDict /\ consumers = EmptyDict
    /\ RemindersIdle /\ SseIdle /\ StoreIdle /\ WorkersIdle
    /\ last = NoOp

\* startup_event makes its subscribe calls before it starts the consumers
Subscribe ==
    \E topic \in Topics, handler \in Handlers :
        /\ Subscribed(_subscribers) < MaxSubscribed
        /\ consumers = EmptyDict
        /\ subscribe(topic, handler)

Publish ==
    \E topic \in Topics, event \in BusEvents :
        Len(pubLog) < MaxPublished /\ publish(topic, event)

\* startup_event calls start_consumers once, after its subscribe calls
StartConsumers ==
    backend = "redis" /\ _subscribers # EmptyDict /\ consumers = EmptyDict /\ start_consumers

Consume ==
    \E topic \in DOMAIN consumers :
        _consume_read(topic) \/ _consume_dispatch(topic) \/ _consume_ack(topic)

NextBus == Subscribe \/ Publish \/ run_task \/ StartConsumers \/ Consume

SpecBus == InitBus /\ [][NextBus]_vars

\* the in-memory bus alone; asyncio runs every task of its ready queue, first
\* in first out, so a task that is ready is run
InitInMemoryBus == InitBus /\ backend = "memory"

NextInMemoryBus == Subscribe \/ Publish \/ run_task

SpecInMemoryBus == InitInMemoryBus /\ [][NextInMemoryBus]_vars /\ WF_vars(run_task)

\* the number of invocations of a handler with an envelope object
Invocations(obj, handler) ==
    Cardinality({i \in 1..Len(invoked) : invoked[i].event = obj /\ invoked[i].handler = handler})

\* the number of tasks not yet run for a handler and an envelope object
Scheduled(obj, handler) ==
    Cardinality({i \in 1..Len(ready) : ready[i].event = obj /\ ready[i].handler = handler})

\* the number of registrations of a handler in a list of handlers
Registrations(handlers, handler) ==
    Cardinality({i \in 1..Len(handlers) : handlers[i] = handler})

\* a handler raised while it processed the envelope object
Raised(obj) ==
    \E i \in 1..Len(invoked) : invoked[i].event = obj /\ invoked[i].outcome = "raised"

\* C1: after publish(topic, envelope) on either backend the returned envelope
\* has its topic field equal to the topic argument, and every handler invoked
\* with that envelope, and the stream entry logged for it, shows the same topic.
C1_TopicSet ==
    /\ \A j \in 1..Len(pubLog) :
          /\ "topic" \in DOMAIN heap[pubLog[j].event]
          /\ heap[pubLog[j].event].topic = pubLog[j].topic
    /\ \A i \in 1..Len(invoked), j \in 1..Len(pubLog) :
          invoked[i].event = pubLog[j].event =>
              "topic" \in DOMAIN invoked[i].seen /\ invoked[i].seen.topic = pubLog[j].topic
    /\ \A topic \in DOMAIN stream :
          /\ Len(stream[topic]) = Len(SelectSeq(pubLog, LAMBDA p : p.topic = topic))
          /\ \A k \in 1..Len(stream[topic]) :
                LET logged == json_loads(stream[topic][k].data)
                IN  "topic" \in DOMAIN logged /\ logged.topic = topic
    /\ \A topic \in DOMAIN consumers :
          \A id \in DOMAIN consumers[topic].decoded, i \in 1..Len(invoked) :
              invoked[i].event = consumers[topic].decoded[id] =>
                  "topic" \in DOMAIN invoked[i].seen /\ invoked[i].seen.topic = topic

\* C1 witness: on Redis, envelopes were published to both topics, and a handler
\* was invoked with the one published to "task.audit" and saw that topic.
C1_Witness ==
    /\ backend = "redis"
    /\ {pubLog[j].topic : j \in 1..Len(pubLog)} = Topics
    /\ \E i \in 1..Len(invoked) :
          "topic" \in DOMAIN invoked[i].seen /\ invoked[i].seen.topic = "task.audit"

\* C2: a handler that raised while processing an envelope stops no other
\* handler of the topic.  In memory every registration of the topic has its
\* own task, which has run or is still to run; in the Redis consumer the for
\* loop over the handlers is still on the message, or has called them all.
C2_Isolation ==
    /\ backend = "memory" =>
          \A j \in 1..Len(pubLog) :
              Raised(pubLog[j].event) =>
                  \A h \in Handlers :
                      Invocations(pubLog[j].event, h) + Scheduled(pubLog[j].event, h)
                          = Registrations(pubLog[j].registered, h)
    /\ \A topic \in DOMAIN consumers :
          \A id \in DOMAIN consumers[topic].decoded :
              LET c == consumers[topic]
                  obj == c.decoded[id]
              IN  Raised(obj) =>
                      \/ c.event = obj /\ c.state \in {"dispatching", "awaiting"}
                      \/ \A h \in Handlers :
                            Invocations(obj, h) = Registrations(_subscribers[topic], h)

\* C2 witness: the Redis consumer of a topic whose first handler raises and
\* whose second returns has called both with a message and acknowledged it.
C2_Witness ==
    /\ backend = "redis"
    /\ \E topic \in DOMAIN consumers :
          /\ _subscribers[topic] = <<"h_raises", "h_returns">>
          /\ \E id \in consumers[topic].acked :
                /\ Invocations(consumers[topic].decoded[id], "h_raises") = 1
                /\ Invocations(consumers[topic].decoded[id], "h_returns") = 1

\* C3: on the in-memory bus no handler scheduled for an envelope runs before
\* the publish call that carries the envelope has returned; this holds of
\* every invocation, those of a handler that never completes included.
C3_FireAndForget ==
    backend = "memory" => \A i \in 1..Len(invoked) : invoked[i].returned

\* C3 witness: a handler invoked with a published envelope never completed,
\* and a publish call made after that invocation has returned.
C3_Witness ==
    /\ backend = "memory"
    /\ \E i \in 1..Len(invoked) :
          /\ invoked[i].outcome = "pending"
          /\ invoked[i].returned
          /\ invoked[i].after < Len(pubLog)

\* every handler registered on the topic when the j-th publish was made has
\* been invoked with its envelope once per registration
Delivered(j) ==
    \A h \in Handlers :
        Invocations(pubLog[j].event, h) = Registrations(pubLog[j].registered, h)

\* C4: on the in-memory bus, with a fair scheduler, every published envelope
\* is eventually delivered exactly once per registration to the handlers that
\* were registered on its topic when it was published, and at no time more
\* often, nor to a handler registered on another topic only.
C4_FanOut ==
    /\ [](\A j \in 1..Len(pubLog), h \in Handlers :
              Invocations(pubLog[j].event, h) <= Registrations(pubLog[j].registered, h))
    /\ \A j \in 1..MaxPublished :
          (Len(pubLog) >= j) ~> (Len(pubLog) >= j /\ Delivered(j))

\* C4 witness: an envelope published to a topic with one registration of a
\* handler, and a later one published after the handler was registered again,
\* are both delivered: the first once and the second twice.
C4_Witness ==
    /\ Len(pubLog) = 2 /\ ready = <<>>
    /\ pubLog[1].registered = <<"h_returns">>
    /\ pubLog[2].registered = <<"h_returns", "h_returns">>
    /\ Invocations(pubLog[1].event, "h_returns") = 1
    /\ Invocations(pubLog[2].event, "h_returns") = 2

\* C17, as claimed: the Redis consumer acknowledges an entry only if every
\* handler it was dispatched to returned without raising; an entry for which
\* some handler raised is not acknowledged.
C17_AsClaimed ==
    \A topic \in DOMAIN consumers :
        \A id \in consumers[topic].acked : ~Raised(consumers[topic].decoded[id])

(***************************************************************************)
(* The application on the in-memory bus: startup_event has subscribed the  *)
(* three subscribers, clients open their streams, producers publish task   *)
(* events, and the event loop runs the subscribers' tasks.                 *)
(***************************************************************************)
AppEvents ==
    Envelopes({EVENT_TASK_CREATED}, {"u1"}, {1},
              Payloads({None, <<2024, 2, 28>>}, {"none"}, BOOLEAN) \ {EmptyDict})
    \cup Envelopes({EVENT_TASK_CREATED}, {"u2"}, {1},
                   Payloads({<<2024, 2, 28>>}, {"none"}, {TRUE}) \ {EmptyDict})
    \cup Envelopes({EVENT_TASK_COMPLETED}, {"u1"}, {1},
                   Payloads({<<2024, 2, 28>>}, {"daily"}, {TRUE}) \ {EmptyDict})

\* the number of published envelopes the recurrence subscriber derives a task from
Recurring ==
    Cardinality({j \in 1..Len(pubLog) : RecurrenceApplies(heap[pubLog[j].event])})

InitApp ==
    /\ backend = "memory"
    /\ _subscribers = StartupSubscribers
    /\ heap = EmptyDict /\ ready = <<>> /\ invoked = <<>> /\ pubLog = <<>>
    /\ stream = EmptyDict /\ consumers = EmptyDict
    /\ RemindersIdle /\ SseIdle /\ StoreIdle /\ WorkersIdle /\ last = NoOp

\* the streams are opened before the first event is published
OpenStream == pubLog = <<>> /\ Connect

PublishTask ==
    \E event \in AppEvents :
        /\ Len(pubLog) < MaxPublished
        /\ Recurring + (IF RecurrenceApplies(event) THEN 1 ELSE 0) <= MaxRows
        /\ publish(TOPIC_TASK_LIFECYCLE, event)

RunSubscriber == \E db_ok \in BOOLEAN : run_subscriber(db_ok)

NextApp == OpenStream \/ PublishTask \/ RunSubscriber

SpecApp == InitApp /\ [][NextApp]_vars

\* exactly one envelope was published, it is a task.created of a task with no
\* recurrence, a reminder and a due date, and every task made for it has run
OneCreatedDelivered ==
    /\ Len(pubLog) = 1
    /\ ready = <<>>
    /\ LET event == heap[pubLog[1].event]
       IN  /\ event.event_type = EVENT_TASK_CREATED
           /\ event.payload.recurrence = "none"
           /\ event.payload.reminder_enabled
           /\ event.payload.due_date # None

\* the publishes, in order, whose envelope is about task t
PublishedFor(t) ==
    {j \in 1..Len(pubLog) : Get(heap[pubLog[j].event], "task_id", None) = t}

\* the envelope of the last publish about task t
LastEventFor(t) ==
    heap[pubLog[CHOOSE j \in PublishedFor(t) : \A k \in PublishedFor(t) : k <= j].event]

\* C36: on the in-memory bus with reminder_subscriber registered, once every
\* dispatched handler has run, the reminder index entry of each task t is what
\* the last published event about t determines by itself (the due date of a
\* task.created or task.updated with a reminder and a due date, no entry
\* otherwise), and a task no event was published about has no entry: the
\* handlers of different envelopes reach the index in publish order.
C36_IndexFollowsPublishOrder ==
    ready = <<>> =>
        \A t \in TaskIds :
            IF PublishedFor(t) = {} THEN t \notin DOMAIN _pending_reminders
            ELSE LET alone == ReminderIndexAfter(EmptyDict, LastEventFor(t))
                 IN  /\ (t \in DOMAIN _pending_reminders) = (t \in DOMAIN alone)
                     /\ t \in DOMAIN alone => _pending_reminders[t] = alone[t]

\* C36 witness: task 1 was created with a reminder and then completed; both
\* envelopes have passed reminder_subscriber and the index holds no entry
C36_Witness ==
    /\ ready = <<>>
    /\ Len(pubLog) >= 2
    /\ heap[pubLog[1].event].event_type = EVENT_TASK_CREATED
    /\ heap[pubLog[1].event].task_id = 1
    /\ ReminderIndexAfter(EmptyDict, heap[pubLog[1].event]) # EmptyDict
    /\ heap[pubLog[2].event].event_type = EVENT_TASK_COMPLETED
    /\ heap[pubLog[2].event].task_id = 1
    /\ _pending_reminders = EmptyDict

\* C13: on the in-memory bus with the three startup subscribers, after one
\* task.created envelope for task t and user u with reminder_enabled = true,
\* due_date = D and recurrence = none was published and all its handlers have
\* run, the reminder index maps t to D, each channel connected for u holds
\* exactly one notification, of type task.created, and no task was created.
C13_EndToEnd ==
    OneCreatedDelivered =>
        LET event == heap[pubLog[1].event]
        IN  /\ event.task_id \in DOMAIN _pending_reminders
            /\ _pending_reminders[event.task_id] = event.payload.due_date
            /\ \A q \in OpenChannels(event.user_id) :
                  /\ Len(queues[q]) = 1
                  /\ queues[q][1].event_type = EVENT_TASK_CREATED
            /\ store = EmptyDict
            /\ requests = <<>>

\* C13 witness: such an envelope of user u1, who has two channels connected,
\* has been delivered to the three subscribers.
C13_Witness ==
    /\ OneCreatedDelivered
    /\ Len(invoked) = 3
    /\ heap[pubLog[1].event].user_id = "u1"
    /\ Cardinality(OpenChannels("u1")) = 2

(***************************************************************************)
(* Redelivery: the recurrence subscriber is invoked with one envelope, and *)
(* then with the same envelope again, as an at-least-once log does.        *)
(***************************************************************************)
MaxDelivered == 2

NextRedelivery ==
    \E event \in RecurrenceEvents :
    \E n \in {Len(AddTaskCalls(event))} :
    \E db_ok \in IF n = 0 THEN {TRUE} ELSE BOOLEAN :
        /\ IF last = NoOp THEN TRUE ELSE last.event = event
        /\ Cardinality(DOMAIN store) + n <= MaxDelivered
        /\ recurrence_subscriber(event, db_ok)

SpecRedelivery == InitRecurrence /\ [][NextRedelivery]_vars

\* C14, as claimed: invoking recurrence_subscriber again with the envelope it
\* was last invoked with leaves the end state of the first invocation: no
\* further derived task in the store and no further created event published.
C14_AsClaimed ==
    [][(/\ last.op = "recurrence_subscriber"
        /\ last'.op = "recurrence_subscriber"
        /\ last'.event = last.event)
       => store' = store /\ pubLog' = pubLog]_vars

(***************************************************************************)
(* The streaming endpoint: clients open streams, notifications arrive, and *)
(* every stream ends in one of the ways a response can end.                *)
(***************************************************************************)
StreamExits == {"disconnected", "error", "cancelled"}

OpenEventStream ==
    \E user_id \in Users : Cardinality(DOMAIN queues) < MaxQueues /\ event_stream(user_id)

StartStream == \E q \in DOMAIN generators : _generate_start(q)

ExitStream == \E q \in DOMAIN generators, how \in StreamExits : _generate_exit(q, how)

AbandonStream == \E q \in DOMAIN generators : _generate_abandoned(q)

NextStream == OpenEventStream \/ StartStream \/ ExitStream \/ AbandonStream \/ Notify

SpecStream == InitSse /\ [][NextStream]_vars

\* C16, as claimed: on every way a stream can end, the channel event_stream
\* registered for it has been removed from the registry: no channel stays
\* registered after its stream has ended.
C16_AsClaimed ==
    \A q \in DOMAIN generators :
        generators[q].state = "ended" =>
            q \notin Elements(Get(_sse_queues, generators[q].user_id, <<>>))

(***************************************************************************)
(* The Redis bus with the failures its consumer loop meets: entries that   *)
(* are not JSON, and xack calls that fail.  The event loop runs the        *)
(* consumer tasks whenever they can take a step.                           *)
(***************************************************************************)
MaxMalformed == 1

\* the number of entries of the streams that are not JSON
RECURSIVE MalformedEntries(_)
MalformedEntries(streams) ==
    IF DOMAIN streams = {} THEN 0
    ELSE LET t == CHOOSE k \in DOMAIN streams : TRUE
         IN  Len(SelectSeq(streams[t], LAMBDA e : ~Decodable(e.data)))
                 + MalformedEntries(DelItem(streams, t))

InitRedisBus == InitBus /\ backend = "redis"

AppendMalformed ==
    \E topic \in Topics : MalformedEntries(stream) < MaxMalformed /\ xadd_malformed(topic)

DecodeFails == \E topic \in DOMAIN consumers : _consume_decode_fails(topic)

AckFails == \E topic \in DOMAIN consumers : _consume_ack_fails(topic)

ConsumeFails == DecodeFails \/ AckFails

ConsumerStep == Consume \/ ConsumeFails

NextRedisBus ==
    Subscribe \/ Publish \/ AppendMalformed \/ StartConsumers \/ Consume \/ ConsumeFails

SpecRedisBus == InitRedisBus /\ [][NextRedisBus]_vars /\ WF_vars(ConsumerStep)

\* the ids an entry of a stream can have
EntryIds == 1..(MaxPublished + MaxMalformed)

\* the consumer of the topic read the entry, did not acknowledge it, and has
\* left it: it is not in the batch the loop is working on
ReadAndLeft(topic, id) ==
    /\ topic \in DOMAIN consumers
    /\ id \in Elements(consumers[topic].read)
    /\ id \notin consumers[topic].acked
    /\ \A i \in 1..Len(consumers[topic].messages) : consumers[topic].messages[i].id # id

\* the consumer of the topic read the entry a second time
ReadAgain(topic, id) ==
    /\ topic \in DOMAIN consumers
    /\ Cardinality({i \in 1..Len(consumers[topic].read) : consumers[topic].read[i] = id}) > 1

\* C18, as claimed: every entry the Redis consumer read and did not
\* acknowledge (decoding or the ack failed) is eventually delivered to the
\* loop, and so dispatched, again.
C18_AsClaimed ==
    \A topic \in Topics, id \in EntryIds : ReadAndLeft(topic, id) ~> ReadAgain(topic, id)

(***************************************************************************)
(* The Redis bus where the only failure is an entry that is not JSON: the  *)
(* server stays reachable and every xack succeeds.                         *)
(***************************************************************************)
NextPoison ==
    Subscribe \/ Publish \/ AppendMalformed \/ StartConsumers \/ Consume \/ DecodeFails

SpecPoison == InitRedisBus /\ [][NextPoison]_vars /\ WF_vars(Consume \/ DecodeFails)

\* the entry is in the stream of the topic, it is JSON, and a consumer whose
\* handlers all come back reads the topic
DecodableEntry(topic, id) ==
    /\ topic \in DOMAIN consumers
    /\ id \in 1..Len(Get(stream, topic, <<>>))
    /\ Decodable(stream[topic][id].data)
    /\ \A h \in Elements(HandlersFor(_subscribers, topic)) : HandlerOutcome(h) # "pending"

\* the consumer of the topic decoded the entry and called every handler of
\* the topic with the event
DispatchedToAll(topic, id) ==
    /\ topic \in DOMAIN consumers
    /\ id \in DOMAIN consumers[topic].decoded
    /\ \A h \in Elements(HandlersFor(_subscribers, topic)) :
          Invocations(consumers[topic].decoded[id], h) > 0

\* C19, as claimed: an entry that cannot be decoded is skipped, and every
\* decodable entry of the topic, one read in the same batch after the
\* malformed one included, is eventually dispatched to all the handlers.
C19_AsClaimed ==
    \A topic \in Topics, id \in EntryIds :
        DecodableEntry(topic, id) ~> DispatchedToAll(topic, id)

(***************************************************************************)
(* Two processes of the application on one Redis server.  The pid of a     *)
(* process is whatever its host gives it: two processes of one host have   *)
(* different pids, two containers can both run the application as pid 1.   *)
(***************************************************************************)
Procs == {"p1", "p2"}

Pids == {1, 2}

MaxWorkerSubscribed == 1

MaxAppended == 2

\* handlers that come back to the loop, by returning or by raising
WorkerHandlers == {h \in Handlers : HandlerOutcome(h) # "pending"}

\* the number of entries of all the streams
RECURSIVE Appended(_)
Appended(streams) ==
    IF DOMAIN streams = {} THEN 0
    ELSE LET t == CHOOSE k \in DOMAIN streams : TRUE
         IN  Len(streams[t]) + Appended(DelItem(streams, t))

InitWorkers ==
    /\ backend = "redis"
    /\ _subscribers = EmptyDict
    /\ heap = EmptyDict /\ ready = <<>> /\ invoked = <<>> /\ pubLog = <<>>
    /\ stream = EmptyDict /\ consumers = EmptyDict
    /\ RemindersIdle /\ SseIdle /\ StoreIdle
    /\ generators = EmptyDict
    /\ twin = EmptyDict
    /\ groups = EmptyDict
    /\ workers \in [Procs -> {NewWorker(pid) : pid \in Pids}]
    /\ last = NoOp

WorkerSubscribe ==
    \E p \in Procs, topic \in Topics, handler \in WorkerHandlers :
        /\ ~workers[p].started
        /\ Subscribed(workers[p].subscribers) < MaxWorkerSubscribed
        /\ worker_subscribe(p, topic, handler)

WorkerPublish ==
    \E p \in Procs, topic \in Topics, event \in BusEvents :
        Appended(stream) < MaxAppended /\ worker_publish(p, topic, event)

WorkerStart ==
    \E p \in Procs : workers[p].subscribers # EmptyDict /\ worker_start_consumers(p)

\* the _consume tasks run once start_consumers has created them
WorkerConsume ==
    \E p \in Procs, topic \in Topics : workers[p].started /\ worker_consume(p, topic)

NextWorkers == WorkerSubscribe \/ WorkerPublish \/ WorkerStart \/ WorkerConsume

SpecWorkers == InitWorkers /\ [][NextWorkers]_vars

\* the processes that called the handler with the entry id of the topic
DispatchedBy(topic, id, handler) ==
    {p \in Procs : [topic |-> topic, id |-> id, handler |-> handler] \in workers[p].dispatched}

\* C20, as claimed: when two processes subscribe the same handler to the same
\* topic of the Redis bus, each entry of the topic is dispatched to that
\* handler by at most one of the processes.
C20_AsClaimed ==
    \A topic \in Topics, id \in 1..MaxAppended, handler \in WorkerHandlers :
        Cardinality(DispatchedBy(topic, id, handler)) <= 1

\* the positions in the history of handler calls of the calls of the handler
\* with the event decoded from the entry id of the topic
CallsFor(topic, id, handler) ==
    {i \in 1..Len(invoked) :
        /\ invoked[i].handler = handler
        /\ invoked[i].event = consumers[topic].decoded[id]}

\* C22: on the Redis bus, when the consumer of a topic has called a handler
\* for two entries of the topic, every call for the entry appended first came
\* before, and had finished before, every call for the entry appended later.
C22_LogOrder ==
    \A topic \in DOMAIN consumers :
        \A id1, id2 \in DOMAIN consumers[topic].decoded : \A handler \in Handlers :
            id1 < id2 =>
                \A a \in CallsFor(topic, id1, handler), b \in CallsFor(topic, id2, handler) :
                    a < b /\ invoked[a].outcome # "pending"

\* C22 witness: a handler was called for two entries of one topic
C22_Witness ==
    \E topic \in DOMAIN consumers :
        \E id1, id2 \in DOMAIN consumers[topic].decoded : \E handler \in Handlers :
            /\ id1 < id2
            /\ CallsFor(topic, id1, handler) # {}
            /\ CallsFor(topic, id2, handler) # {}

(***************************************************************************)
(* The consumer loop of one topic on the Redis bus, with every failure the *)
(* try of _consume can meet: xreadgroup raising, an entry that is not      *)
(* JSON, a handler raising, xack raising.                                  *)
(***************************************************************************)
MaxLoopHandlers == 2

MaxLoopEntries == 2

MaxFailed == 2

LoopSubscribe ==
    \E handler \in Handlers :
        /\ Subscribed(_subscribers) < MaxLoopHandlers
        /\ consumers = EmptyDict
        /\ subscribe(TOPIC_TASK_LIFECYCLE, handler)

LoopPublish ==
    \E event \in BusEvents :
        /\ Len(Get(stream, TOPIC_TASK_LIFECYCLE, <<>>)) < MaxLoopEntries
        /\ publish(TOPIC_TASK_LIFECYCLE, event)

LoopAppendMalformed ==
    /\ Len(Get(stream, TOPIC_TASK_LIFECYCLE, <<>>)) < MaxLoopEntries
    /\ xadd_malformed(TOPIC_TASK_LIFECYCLE)

ReadFails ==
    \E topic \in DOMAIN consumers :
        consumers[topic].failed < MaxFailed /\ _consume_read_fails(topic)

NextConsumerLoop ==
    LoopSubscribe \/ LoopPublish \/ LoopAppendMalformed \/ StartConsumers
        \/ Consume \/ DecodeFails \/ AckFails \/ ReadFails

SpecConsumerLoop == InitRedisBus /\ [][NextConsumerLoop]_vars

\* where the while True of _consume can stand
LoopStates == {"reading", "dispatching", "awaiting", "acking"}

\* the step is a dispatch of the loop of the topic in which the handler raised
HandlerRaisedInLoop(topic) ==
    /\ consumers'[topic] # consumers[topic]
    /\ Len(invoked') > Len(invoked)
    /\ invoked'[Len(invoked')].outcome = "raised"

\* C21: a started Redis consumer loop never terminates: after every step its
\* task is there and stands somewhere in the while loop; every exception that
\* reaches the except of the loop (from xreadgroup, json.loads or xack) leaves
\* it at its next xreadgroup; and a handler that raised leaves it going on
\* with the batch, the except of the loop not entered.
C21_LoopNeverTerminates ==
    [][\A topic \in DOMAIN consumers :
          /\ topic \in DOMAIN consumers'
          /\ consumers'[topic].state \in LoopStates
          /\ consumers'[topic].failed > consumers[topic].failed
                => consumers'[topic].state = "reading"
          /\ HandlerRaisedInLoop(topic)
                => /\ consumers'[topic].state \in {"dispatching", "acking"}
                   /\ consumers'[topic].failed = consumers[topic].failed]_vars

\* C21 witness: the loop met an exception of each kind and went on to read
\* and dispatch a later entry
C21_Witness ==
    \E topic \in DOMAIN consumers :
        /\ consumers[topic].failed >= 2
        /\ consumers[topic].state = "dispatching"
        /\ \E i \in 1..Len(invoked) : invoked[i].outcome = "raised"

(***************************************************************************)
(* The REST endpoint that creates tasks, on either backend, with a Redis   *)
(* server that can or cannot be reached when the endpoint publishes.       *)
(***************************************************************************)
MaxCreated == 2

CreateCalls ==
    {Row(user_id, "Buy groceries", due_date, recurrence, reminder_enabled) :
        user_id \in Users, due_date \in {None, fromisoformat(<<2024, 2, 28>>)},
        recurrence \in {"none", "daily"}, reminder_enabled \in BOOLEAN}

CreateTask ==
    \E call \in CreateCalls, reachable \in BOOLEAN :
        Cardinality(DOMAIN store) < MaxCreated /\ create_task(call, reachable)

NextRequests == CreateTask

SpecRequests == InitBus /\ [][NextRequests]_vars

\* C23, as claimed: a publish made while the Redis server cannot be reached
\* does not raise, and the request that had committed its task completes
\* successfully.
C23_AsClaimed ==
    (last.op = "create_task" /\ last.committed) => (~last.raised /\ last.status = 201)

(***************************************************************************)
(* The application on the in-memory bus and its twin on the Redis bus, one *)
(* process each, given the same calls at the same points: every publish of *)
(* a producer and every sse_connect is made on both, and the twin's        *)
(* consumer makes a handler call whenever the event loop of the first ran  *)
(* a task.  No store, server or handler fails.                             *)
(***************************************************************************)
TwinOwesHandler == Len(twin.bus.invoked) < Len(invoked)

TwinOwesPublish == ~TwinOwesHandler /\ Len(twin.bus.pubLog) < Len(pubLog)

TwinOwesConnect == Cardinality(DOMAIN twin.queues) < Cardinality(DOMAIN queues)

InStep == ~TwinOwesHandler /\ ~TwinOwesPublish /\ ~TwinOwesConnect

InitTwin ==
    /\ backend = "memory"
    /\ _subscribers = StartupSubscribers
    /\ heap = EmptyDict /\ ready = <<>> /\ invoked = <<>> /\ pubLog = <<>>
    /\ stream = EmptyDict /\ consumers = EmptyDict
    /\ RemindersIdle /\ SseIdle /\ StoreIdle
    /\ generators = EmptyDict /\ groups = EmptyDict /\ workers = EmptyDict
    /\ twin = NewTwin
    /\ last = NoOp

MemoryConnect == InStep /\ OpenStream

\* a task of u1 created with a due date and a reminder, completed as a daily
\* task, and deleted; a task of u2 created
TwinEvents ==
    Envelopes({EVENT_TASK_CREATED, EVENT_TASK_DELETED}, {"u1"}, {1},
              Payloads({<<2024, 2, 28>>}, {"none"}, {TRUE}) \ {EmptyDict})
    \cup Envelopes({EVENT_TASK_COMPLETED}, {"u1"}, {1},
                   Payloads({<<2024, 2, 28>>}, {"daily"}, {TRUE}) \ {EmptyDict})
    \cup Envelopes({EVENT_TASK_CREATED}, {"u2"}, {1},
                   Payloads({None}, {"none"}, {FALSE}) \ {EmptyDict})

MemoryPublish ==
    \E event \in TwinEvents :
        /\ InStep
        /\ Len(pubLog) < MaxPublished
        /\ Recurring + (IF RecurrenceApplies(event) THEN 1 ELSE 0) <= MaxRows
        /\ publish(TOPIC_TASK_LIFECYCLE, event)

MemoryRun == InStep /\ run_subscriber(TRUE)

TwinConnect ==
    \E user_id \in Users :
        /\ TwinOwesConnect
        /\ \E q \in DOMAIN queues \ DOMAIN twin.queues : <<user_id, q>> \in opened
        /\ twin_connect(user_id)

TwinPublish ==
    \E event \in TwinEvents :
        /\ TwinOwesPublish
        /\ SetTopic(event, TOPIC_TASK_LIFECYCLE) = heap[pubLog[Len(twin.bus.pubLog) + 1].event]
        /\ twin_publish(event)

TwinConsume == TwinOwesHandler /\ twin_consume

NextTwin ==
    MemoryConnect \/ MemoryPublish \/ MemoryRun \/ TwinConnect \/ TwinPublish \/ TwinConsume

SpecTwin == InitTwin /\ [][NextTwin]_vars

\* the handler calls of a bus, in order: which handler, and what it read
Calls(calls) == [i \in 1..Len(calls) |-> [handler |-> calls[i].handler, seen |-> calls[i].seen]]

\* C24: given the same publishes on task.lifecycle, with the three startup
\* subscribers, one process and no failure, the Redis bus leaves the same
\* reminder index, the same tasks created by the recurrence subscriber and
\* the same notifications, in the same order, on every SSE channel as the
\* in-memory bus; the handlers are called in the same order with the same
\* envelopes, and one bus has calls left to make exactly when the other has.
C24_BackendsAgree ==
    /\ TwinOwesHandler => TwinMessages(twin) # <<>>
    /\ InStep =>
          /\ twin.reminders = _pending_reminders
          /\ twin.store = store
          /\ twin.registry = _sse_queues
          /\ twin.queues = queues
          /\ Calls(twin.bus.invoked) = Calls(invoked)
          /\ (TwinMessages(twin) = <<>>) <=> (ready = <<>>)

\* C24 witness: two envelopes, one a completed daily task, have gone through
\* both buses to the end: the task it recurs into was created, and a channel
\* holds the three notifications
C24_Witness ==
    /\ InStep
    /\ ready = <<>>
    /\ Len(pubLog) = 3
    /\ store # EmptyDict
    /\ \E q \in DOMAIN queues : Len(queues[q]) = 3 /\ twin.queues[q] = queues[q]

(***************************************************************************)
(* The in-memory bus with a caller that keeps the envelope it published    *)
(* and publishes the same dict again.                                      *)
(***************************************************************************)
PublishAgain ==
    \E topic \in Topics, obj \in DOMAIN heap :
        Len(pubLog) < MaxPublished /\ publish_object(topic, obj)

NextRepublish == Subscribe \/ Publish \/ PublishAgain \/ run_task

SpecRepublish == InitInMemoryBus /\ [][NextRepublish]_vars

\* the handler was registered on the topic of the publish j, and no other
\* publish of the same envelope object went to a topic with that handler
OnlyPublishFor(j, handler) ==
    /\ handler \in Elements(pubLog[j].registered)
    /\ \A k \in 1..Len(pubLog) :
          (k # j /\ pubLog[k].event = pubLog[j].event)
              => handler \notin Elements(pubLog[k].registered)

\* C25, as claimed: what a handler of publish(T, E) observes for E is the
\* content E had when that publish returned, whatever was done with the
\* envelope object afterwards; here, its topic is T.
C25_AsClaimed ==
    \A i \in 1..Len(invoked), j \in 1..Len(pubLog) :
        (invoked[i].event = pubLog[j].event /\ OnlyPublishFor(j, invoked[i].handler))
            => invoked[i].seen.topic = pubLog[j].topic

\* C26, as claimed: subscribe(topic, handler) called again with the same
\* topic and handler changes nothing, so that a publish on the topic invokes
\* the handler once, never twice, for the envelope.
C26_AsClaimed ==
    \A j \in 1..Len(pubLog), handler \in Handlers :
        Invocations(pubLog[j].event, handler) <= 1

\* the handler calls made with the envelope object, in the order they started
CallsWith(obj) == SelectSeq(invoked, LAMBDA c : c.event = obj)

\* C27: on the in-memory bus the handlers of one envelope start in the order
\* in which they were registered on its topic: at any time the handlers
\* started for it are the first ones of the topic's list, in the list's order.
C27_RegistrationOrder ==
    \A j \in 1..Len(pubLog) :
        LET calls == CallsWith(pubLog[j].event)
        IN  /\ Len(calls) <= Len(pubLog[j].registered)
            /\ \A k \in 1..Len(calls) : calls[k].handler = pubLog[j].registered[k]

\* C27 witness: two different handlers registered on the topic of an envelope
\* have both started for it
C27_Witness ==
    \E j \in 1..Len(pubLog) :
        /\ Len(pubLog[j].registered) = 2
        /\ pubLog[j].registered[1] # pubLog[j].registered[2]
        /\ Len(CallsWith(pubLog[j].event)) = 2

(***************************************************************************)
(* The application on the in-memory bus with everything that runs in the   *)
(* process: producers publishing, the three subscribers run by the event   *)
(* loop, SSE clients connecting and disconnecting.                         *)
(***************************************************************************)
\* a task of u1 created with a due date and a reminder, and completed as a
\* daily task
WriterEvents ==
    Envelopes({EVENT_TASK_CREATED}, {"u1"}, {1},
              Payloads({<<2024, 2, 28>>}, {"none"}, {TRUE}) \ {EmptyDict})
    \cup Envelopes({EVENT_TASK_COMPLETED}, {"u1"}, {1},
                   Payloads({<<2024, 2, 28>>}, {"daily"}, {TRUE}) \ {EmptyDict})

WriterPublish ==
    \E event \in WriterEvents :
        /\ Len(pubLog) < MaxPublished
        /\ Recurring + (IF RecurrenceApplies(event) THEN 1 ELSE 0) <= MaxRows
        /\ publish(TOPIC_TASK_LIFECYCLE, event)

\* a client going away: the sse_disconnect of its event_stream
WriterDisconnect ==
    \E user_id \in DOMAIN _sse_queues :
        \E q \in Elements(_sse_queues[user_id]) : sse_disconnect(user_id, q)

WriterRun == ready # <<>> /\ run_subscriber(TRUE)

NextWriters == OpenStream \/ WriterDisconnect \/ WriterPublish \/ WriterRun

SpecWriters == InitApp /\ [][NextWriters]_vars

\* the step is the event loop running the task of the handler
Ran(handler) ==
    /\ ready # <<>>
    /\ Head(ready).handler = handler
    /\ Len(invoked') = Len(invoked) + 1

\* C30: the reminder index has a single writer: a step that changes it is a
\* run of reminder_subscriber (never one of recurrence_subscriber or
\* notification_subscriber, an sse_connect, an sse_disconnect or a publish),
\* and a run of reminder_subscriber leaves the SSE registry and the content
\* of every channel as they were.
C30_SingleWriter ==
    [][/\ _pending_reminders' # _pending_reminders => Ran("reminder_subscriber")
       /\ Ran("reminder_subscriber") => (_sse_queues' = _sse_queues /\ queues' = queues)]_vars

\* C30 witness: with a channel connected and one disconnected, the index holds
\* a reminder, a task was created by the recurrence subscriber, and a
\* notification is on a channel: every writer has run
C30_Witness ==
    /\ _pending_reminders # EmptyDict
    /\ store # EmptyDict
    /\ closed # {}
    /\ \E q \in DOMAIN queues : queues[q] # <<>>
    /\ ready = <<>>

(***************************************************************************)
(* One completion of a recurring task on the in-memory bus, and nothing    *)
(* else arriving: the event loop runs the subscribers' tasks until none is *)
(* left.  The loop runs a ready task whenever there is one.                *)
(***************************************************************************)
CompletedEvents ==
    Envelopes({EVENT_TASK_COMPLETED}, Users, TaskIds,
              Payloads({None} \cup DueStrings, Recurrences \ {"none"}, BOOLEAN) \ {EmptyDict})

PublishCompleted ==
    \E event \in CompletedEvents : pubLog = <<>> /\ publish(TOPIC_TASK_LIFECYCLE, event)

RunHandler == \E db_ok \in BOOLEAN : ready # <<>> /\ run_subscriber(db_ok)

NextCompletion == PublishCompleted \/ RunHandler

SpecCompletion == InitApp /\ [][NextCompletion]_vars /\ WF_vars(RunHandler)

\* the handlers that have run with the j-th published envelope
RanWith(j) == {invoked[i].handler : i \in {k \in 1..Len(invoked) : invoked[k].event = pubLog[j].event}}

\* C38: after one task.completed event with a recurrence other than none is
\* published and nothing else arrives, at most one more event is published,
\* the task.created of the one derived task; that event leads to no further
\* task and no further publication; and the system comes to rest with no
\* handler work pending.
C38_RecurrenceTerminates ==
    /\ [](/\ Len(pubLog) <= 2
          /\ Cardinality(DOMAIN store) <= 1
          /\ Len(pubLog) = 2 =>
                /\ heap[pubLog[2].event].event_type = EVENT_TASK_CREATED
                /\ heap[pubLog[2].event].task_id \in DOMAIN store
                /\ "recurrence_subscriber" \in RanWith(1))
    /\ [](Len(pubLog) >= 1 => <>[](ready = <<>>))

\* C38 witness: the derived task's task.created event was published, all
\* three subscribers have run with it, the store holds the one derived task
\* and no handler work is pending
C38_Witness ==
    /\ Len(pubLog) = 2
    /\ RanWith(2) = {"reminder_subscriber", "recurrence_subscriber", "notification_subscriber"}
    /\ Cardinality(DOMAIN store) = 1
    /\ ready = <<>>

(***************************************************************************)
(* The Redis consumer started while the server may be out of reach: the    *)
(* process subscribes and starts its consumers, the server comes back and  *)
(* entries are appended, and the loop goes round, its reads failing for as *)
(* long as the server has no answer for them.  The loop is a task of the   *)
(* event loop: a step it can take is taken.                                *)
(***************************************************************************)
\* the handlers subscribed are ones that come back, returning or raising
RecoverySubscribe ==
    \E handler \in {h \in Handlers : HandlerOutcome(h) # "pending"} :
        /\ Subscribed(_subscribers) < MaxLoopHandlers
        /\ consumers = EmptyDict
        /\ subscribe(TOPIC_TASK_LIFECYCLE, handler)

StartUnreachable == _subscribers # EmptyDict /\ consumers = EmptyDict /\ start_consumers_unreachable

StartReachable == _subscribers # EmptyDict /\ StartConsumers

NextRecovery ==
    RecoverySubscribe \/ StartReachable \/ StartUnreachable \/ LoopPublish \/ Consume \/ ReadFails

SpecRecovery == InitRedisBus /\ [][NextRecovery]_vars /\ WF_vars(Consume)

\* the consumer of the topic has decoded the entry and called a handler with it
Dispatched(topic, id) == topic \in DOMAIN consumers /\ id \in DOMAIN consumers[topic].decoded

\* C34, as claimed: with the Redis backend, whether or not the server could be
\* reached when the consumer started, once an entry has been appended to the
\* topic of a started consumer (the server is then reachable) the consumer
\* loop eventually reads and dispatches it.
C34_AsClaimed ==
    \A id \in 1..MaxLoopEntries :
        (/\ TOPIC_TASK_LIFECYCLE \in DOMAIN consumers
         /\ Len(Get(stream, TOPIC_TASK_LIFECYCLE, <<>>)) >= id)
            ~> Dispatched(TOPIC_TASK_LIFECYCLE, id)

(***************************************************************************)
(* One process of the application on a Redis server, restarted once: the   *)
(* process subscribes, starts its consumers and consumes what is appended, *)
(* then ends, and the application is started again with the pid its host   *)
(* gives the new process, the same or another.                             *)
(***************************************************************************)
InitRestart ==
    /\ backend = "redis"
    /\ _subscribers = EmptyDict
    /\ heap = EmptyDict /\ ready = <<>> /\ invoked = <<>> /\ pubLog = <<>>
    /\ stream = EmptyDict /\ consumers = EmptyDict
    /\ RemindersIdle /\ SseIdle /\ StoreIdle
    /\ generators = EmptyDict
    /\ twin = EmptyDict
    /\ groups = EmptyDict
    /\ \E pid \in Pids : workers = SetItem(EmptyDict, "p1", NewWorker(pid))
    /\ last = NoOp

RestartSubscribe ==
    \E topic \in Topics, handler \in WorkerHandlers :
        /\ DOMAIN workers = {"p1"}
        /\ ~workers["p1"].started
        /\ Subscribed(workers["p1"].subscribers) < MaxWorkerSubscribed
        /\ worker_subscribe("p1", topic, handler)

RestartStart == workers["p1"].subscribers # EmptyDict /\ worker_start_consumers("p1")

RestartPublish ==
    \E p \in DOMAIN workers, topic \in Topics, event \in BusEvents :
        Appended(stream) < MaxAppended /\ worker_publish(p, topic, event)

RestartConsume ==
    \E p \in DOMAIN workers, topic \in Topics : workers[p].started /\ worker_consume(p, topic)

Restart == \E pid \in Pids : workers["p1"].started /\ worker_restart("p1", "p2", pid)

NextRestart == RestartSubscribe \/ RestartStart \/ RestartPublish \/ RestartConsume \/ Restart

SpecRestart == InitRestart /\ [][NextRestart]_vars

\* C35, as claimed: with the Redis backend, an entry that was dispatched to a
\* handler and acknowledged before the process was restarted is not dispatched
\* to that handler again by the restarted process, whether its pid is the
\* same or another.
C35_AsClaimed ==
    "p2" \in DOMAIN workers => workers["p1"].dispatched \cap workers["p2"].dispatched = {}

(***************************************************************************)
(* The task operations of the REST, MCP and chat endpoints on the          *)
(* in-memory bus with the three startup subscribers: tasks are created,    *)
(* updated, completed and deleted by their owner or asked for by another   *)
(* user, the store committing or raising; in the second specification the  *)
(* event loop runs the subscribers' tasks in between.                      *)
(***************************************************************************)
MaxOperations == 3

\* the tasks created: with a due date and a reminder, recurring or not
OperationCreateCalls ==
    {Row("u1", "Buy groceries", fromisoformat(<<2024, 2, 28>>), recurrence, TRUE) :
        recurrence \in {"none", "daily"}}

\* the fields a PUT or an MCP update_task sets
UpdateFields == {[completed |-> TRUE], [reminder_enabled |-> FALSE]}

OperationNames ==
    {"create_task", "update_task", "update_task_status", "complete_task", "delete_task"}

CreateOperation ==
    \E call \in OperationCreateCalls :
        /\ Len(pubLog) < MaxOperations
        /\ Cardinality(DOMAIN store) < MaxCreated
        /\ create_task(call, TRUE)

UpdateOperation ==
    \E task_id \in TaskIds, user_id \in Users, fields \in UpdateFields, db_ok \in BOOLEAN :
        /\ Len(pubLog) < MaxOperations
        /\ endpoint("update_task", task_id, user_id,
                    update_task(store, task_id, user_id, fields), db_ok)

StatusOperation ==
    \E task_id \in TaskIds, user_id \in Users, status \in {"complete", "incomplete"},
       db_ok \in BOOLEAN :
        /\ Len(pubLog) < MaxOperations
        /\ endpoint("update_task_status", task_id, user_id,
                    update_task_status(store, task_id, user_id, status), db_ok)

CompleteOperation ==
    \E task_id \in TaskIds, user_id \in Users, db_ok \in BOOLEAN :
        /\ Len(pubLog) < MaxOperations
        /\ endpoint("complete_task", task_id, user_id,
                    complete_task(store, task_id, user_id), db_ok)

DeleteOperation ==
    \E task_id \in TaskIds, user_id \in Users, db_ok \in BOOLEAN :
        /\ Len(pubLog) < MaxOperations
        /\ endpoint("delete_task", task_id, user_id,
                    delete_task(store, task_id, user_id), db_ok)

RunOperationHandler == ready # <<>> /\ run_subscriber(TRUE)

\* the endpoints alone: what they publish waits in the ready queue
NextOperations ==
    CreateOperation \/ UpdateOperation \/ StatusOperation \/ CompleteOperation
        \/ DeleteOperation

SpecOperations == InitApp /\ [][NextOperations]_vars

\* the endpoints and the event loop running the subscribers
NextTasks == NextOperations \/ RunOperationHandler

SpecTasks == InitApp /\ [][NextTasks]_vars

\* the step is one of the endpoints answering a request: a handler run
\* lengthens the history of handler calls, an endpoint does not
OperationStep == last'.op \in OperationNames /\ invoked' = invoked

\* the envelope the step published
Published == heap'[pubLog'[Len(pubLog')].event]

\* C37: every lifecycle event an endpoint publishes corresponds to a store
\* mutation committed before the publish (the envelope carries the task's row
\* as the store now has it, or, for a deletion, the row the store had and no
\* longer has), and an operation that fails, because the task is not found or
\* because the store raises, publishes no event and leaves the store as it
\* was.
C37_PublishFollowsCommit ==
    [][OperationStep =>
        /\ Len(pubLog') > Len(pubLog) =>
              /\ Len(pubLog') = Len(pubLog) + 1
              /\ last'.committed /\ last'.status \in {200, 201}
              /\ Published.task_id = last'.task_id
              /\ IF last'.op = "delete_task"
                 THEN /\ last'.task_id \in DOMAIN store \ DOMAIN store'
                      /\ Published.event_type = EVENT_TASK_DELETED
                      /\ Published.user_id = store[last'.task_id].user_id
                      /\ Published.payload = _task_payload(store[last'.task_id])
                 ELSE /\ last'.task_id \in DOMAIN store'
                      /\ Published.user_id = store'[last'.task_id].user_id
                      /\ Published.payload = _task_payload(store'[last'.task_id])
              /\ last'.op = "create_task" => last'.task_id \notin DOMAIN store
              /\ last'.op = "complete_task" => store' # store
        /\ last'.status \notin {200, 201} =>
              pubLog' = pubLog /\ ready' = ready /\ heap' = heap /\ store' = store]_vars

\* C37 witness: a task was deleted and its task.deleted event published, and
\* a second delete of the same task was answered not found, with nothing
\* published after the first
C37_Witness ==
    /\ last.op = "delete_task"
    /\ last.status = 404
    /\ pubLog # <<>>
    /\ heap[pubLog[Len(pubLog)].event].event_type = EVENT_TASK_DELETED
    /\ heap[pubLog[Len(pubLog)].event].task_id = last.task_id
    /\ last.task_id \notin DOMAIN store

\* C32, as claimed: every task.completed envelope that complete_task builds
\* and the endpoint publishes carries payload.completed = true, also when the
\* task was completed already.
C32_AsClaimed ==
    \A j \in 1..Len(pubLog) :
        heap[pubLog[j].event].event_type = EVENT_TASK_COMPLETED
            => heap[pubLog[j].event].payload.completed

\* C40, as claimed: once all handlers have run, the reminder index has no
\* entry for a task whose stored completed flag is true or that is no longer
\* in the store.
C40_AsClaimed ==
    ready = <<>> =>
        \A task_id \in DOMAIN _pending_reminders :
            task_id \in DOMAIN store /\ ~store[task_id].completed

====
